---- MODULE Spec2Model ----
(***************************************************************************)
(* Model of octoprint/server/__init__.py: the bootstrap of Server.run (the *)
(* intermediary server that claims the port, the handover to the full      *)
(* server), the shutdown routine registered by _register_shutdown_handlers,*)
(* the LifecycleManager fan-out and the assembly of the route table with   *)
(* its validator chains.                                                   *)
(***************************************************************************)
EXTENDS Integers, Sequences, FiniteSets, TLC

\* ------------------------------------------------------------------ bounds
\* how often the shutdown routine is invoked in one behaviour
MaxShutdownRuns == 2
\* how many SIGTERMs the environment delivers in one behaviour
MaxSignals == 1
\* how many subprocesses the environment spawns in one behaviour
MaxSubprocesses == 1
\* how many callback registrations the LifecycleManager holds at a time
MaxRegistrations == 3
\* how many entries the result of one plugin route hook holds
MaxEntries == 2
\* how many requests the preemptive cache holds for the replay
MaxCacheEntries == 2
MaxStarts == 2
MaxDefinitions == 3

\* --------------------------------------------------------------- variables
VARIABLES
    \* Server.run: configuration and the main thread
    has_v6,            \* octoprint.util.net.HAS_V6
    v6_only,           \* self._v6_only
    host,              \* self._host ("None" while unset)
    port,              \* self._port (0 while unset)
    pc,                \* position of the main thread in Server.run
    \* the intermediary server
    isock,             \* its socket: "none", "open", "bound", "closed"
    cloexec_result,    \* outcome of set_close_exec: "pending", "set", "raised", "unsupported"
    serve,             \* the serve thread: "none", "serving", "stopped"
    shutdown_request,  \* BaseServer.shutdown() was called
    \* the full server and the environment of the port
    fsock,             \* the tornado HTTP server: "none", "listening", "closed"
    other_holds,       \* another process has bound the port
    child_holds,       \* a subprocess inherited the intermediary descriptor
    spawned,           \* subprocesses spawned so far
    iaddr,             \* what the intermediary server has bound
    faddr,             \* what the full server listens on
    \* signals and the IOLoop
    sigterm_installed, \* signal.signal(SIGTERM, sigterm_handler) was executed
    atexit_registered, \* atexit.register(on_shutdown) was executed
    signals,           \* SIGTERMs delivered so far
    ioloop_queue,      \* callbacks scheduled on the IOLoop
    \* the shutdown routine
    observer,          \* self._watched_observer's thread: "none", "running", "stopping", "stuck", "terminated"
    has_daemon,        \* self._octoprint_daemon is not None
    sd_pc,             \* position inside on_shutdown
    shutdown_runs,     \* invocations of on_shutdown so far
    n_stop,            \* calls of observer.stop()
    n_join,            \* returns of observer.join()
    n_fired,           \* SHUTDOWN events fired
    n_daemon,          \* calls of daemon.terminated()
    join_warned,       \* the 15s warning was logged in the last run
    sd_steps,          \* the calls the current run of on_shutdown has made
    \* the after-startup work and the preemptive cache
    work,              \* the thread of on_after_startup: "none", "running", "caching", "done", "failed"
    cache_thread,      \* the Preemptive Cache Worker: "none", "running", "done"
    n_cache_threads,   \* Preemptive Cache Workers started
    cache_data,        \* entries the worker has still to replay
    n_replayed,        \* requests the worker has dispatched
    \* LifecycleManager and the plugin manager it is constructed with
    pm_handler,        \* the plugin manager's on_plugin_<event> attributes
    pm_last,           \* what the last notification of the plugin manager ran
    lm_callbacks,      \* self._plugin_lifecycle_callbacks
    lm_pc,             \* on_plugin_event: "idle", "dispatch", "returned", "raised"
    lm_event,          \* the event being dispatched
    lm_name,           \* the name the event is dispatched for
    lm_index,          \* position of the for loop in the callback list
    lm_invoked,        \* the calls made by the dispatch, in order
    lm_removed,        \* the callback of the last remove_callback(callback, None), or "none"
    lm_start,          \* the list of the event when the last dispatch began
    \* _get_server_handlers and the dispatch of a request
    rt_pc,             \* "validators", "routes", "hooks", "assembled"
    access_validators_from_plugins,
    server_routes,     \* the route table under assembly
    rt_hook,           \* position of the loop over the plugin route hooks
    \* _get_max_body_sizes
    bs_pc,             \* "waiting", "hooks", "assembled", "aborted"
    max_body_sizes,    \* the list under assembly
    bs_hook,           \* position of the loop over the body size hooks
    last_request,      \* what the dispatch of the last request called
    \* _execute_preemptive_flask_caching, one pass in detail
    rp_pc,             \* "filter", "replay", "done"
    rp_examined,       \* the entry filter_entries was last called with, and its result
    rp_cache_data,     \* cache_data: route -> the entries kept, in the order of the cache
    rp_batch,          \* the (route, entry) pairs in the order of the two loops
    rp_index,          \* position of the loops in rp_batch
    rp_log,            \* what execute_caching did with each entry it reached
    \* the .incomplete_startup flag over the starts of the server
    flag_pc,           \* how far the run is: "stopped", "run", "plugins", "bound",
                       \* "after_startup", "clearing", "started"
    incomplete_startup_flag,   \* the flag file exists
    ignoreIncompleteStartup,   \* server.ignoreIncompleteStartup as the run read it
    flag_touched,      \* touch() was called in this run and did not raise
    flag_last,         \* how the run before this one ended, and what it had read and done
    flag_starts,       \* the starts so far
    \* _setup_plugin_permissions
    perm_pc,           \* "idle", "hooks", "while", "for", "done"
    perm_definitions,  \* the definitions of the hooks, in the order the hooks give them
    perm_index,        \* position of the running for loop
    perm_registered,   \* the keys set on Permissions by process_regular_permission
    perm_processed,    \* positions in perm_definitions whose definition was registered
    perm_postponed,    \* positions the loop over the hooks postponed
    postponed,         \* positions in perm_definitions still to resolve
    still_postponed,   \* positions the running pass could not resolve
    pass_number

runVars == <<has_v6, v6_only, host, port, pc>>
sockVars == <<isock, cloexec_result, serve, shutdown_request, fsock, other_holds,
              child_holds, spawned, iaddr, faddr>>
loopVars == <<sigterm_installed, atexit_registered, signals, ioloop_queue>>
shutVars == <<observer, has_daemon, sd_pc, shutdown_runs, n_stop, n_join, n_fired,
              n_daemon, join_warned, sd_steps>>
startVars == <<work, cache_thread, n_cache_threads, cache_data, n_replayed>>

serverVars == <<runVars, sockVars, loopVars, shutVars, startVars>>

lmVars == <<pm_handler, pm_last, lm_callbacks, lm_pc, lm_event, lm_name, lm_index,
            lm_invoked, lm_removed, lm_start>>

rtVars == <<rt_pc, access_validators_from_plugins, server_routes, rt_hook,
            bs_pc, max_body_sizes, bs_hook, last_request>>

bsVars == <<bs_pc, max_body_sizes, bs_hook>>

rpVars == <<rp_pc, rp_examined, rp_cache_data, rp_batch, rp_index, rp_log>>

flagVars == <<flag_pc, incomplete_startup_flag, ignoreIncompleteStartup, flag_touched,
              flag_last, flag_starts>>

permVars == <<perm_pc, perm_definitions, perm_index, perm_registered, perm_processed,
              perm_postponed, postponed, still_postponed, pass_number>>

vars == <<serverVars, lmVars, rtVars, rpVars, flagVars, permVars>>

\* what the steps of one component leave alone
notServer == <<lmVars, rtVars, rpVars, flagVars, permVars>>
notLifecycle == <<serverVars, rtVars, rpVars, flagVars, permVars>>
notRoutes == <<serverVars, lmVars, rpVars, flagVars, permVars>>
notReplay == <<serverVars, lmVars, rtVars, flagVars, permVars>>
notFlag == <<serverVars, lmVars, rtVars, rpVars, permVars>>
notPermissions == <<serverVars, lmVars, rtVars, rpVars, flagVars>>

\* ------------------------------------------------------------ Server.run

Hosts == {"None", "0.0.0.0", "127.0.0.1", "::", "::1"}

\* ":" in host
HasColon(h) == h \in {"::", "::1"}

\* Server._ensure_host: the host after the defaulting of an unset host
ensure_host(h, v6) == IF h = "None" THEN (IF v6 THEN "::" ELSE "0.0.0.0") ELSE h

\* the ports a server is constructed with, 0 standing for None
Ports == {0, 8080}

\* the port of last resort
DefaultPort == 5000

\* Server._ensure_port: the port after the defaulting of an unset port
ensure_port(p) == IF p = 0 THEN DefaultPort ELSE p

\* what a server listens on: the port and the (family, address) pairs
NoAddress == [port |-> 0, endpoints |-> {}]

\* every IPv4 and every IPv6 address of the machine
AllV4AndV6 == {<<"v4", "0.0.0.0">>, <<"v6", "::">>}

\* _start_intermediary_server: the ServerClass for host and v6_only
intermediary_server_class(h, v6only) ==
    IF HasColon(h)
    THEN (IF h = "::" /\ ~v6only THEN "HTTPServerV6DualStack"
          ELSE "HTTPServerV6SingleStack")
    ELSE "HTTPServerV4"

\* what ServerClass((host, port), ...) listens on once bound: AF_INET6 with
\* IPV6_V6ONLY unset, AF_INET6 with IPV6_V6ONLY set, AF_INET
intermediary_address(h, p, v6only) ==
    LET class == intermediary_server_class(h, v6only)
    IN  [port |-> p,
         endpoints |-> IF class = "HTTPServerV6DualStack" THEN {<<"v6", h>>, <<"v4", "0.0.0.0">>}
                       ELSE IF class = "HTTPServerV6SingleStack" THEN {<<"v6", h>>}
                       ELSE {<<"v4", h>>}]

\* mutant: the host is handed to listen() as it is
full_server_address_as_host(h, v6only) == h

\* _initialize_and_bind_server: the address handed to listen()
full_server_address(h, v6only) == IF h = "::" /\ ~v6only THEN "None" ELSE h

\* server.listen(port, address=address): tornado listens on v4 and v6 for
\* the address None, else on the one family of the address
tornado_listen(p, address) ==
    [port |-> p,
     endpoints |-> IF address = "None" THEN AllV4AndV6
                   ELSE IF HasColon(address) THEN {<<"v6", address>>}
                   ELSE {<<"v4", address>>}]

\* outcomes of octoprint.util.platform.set_close_exec on the platform at hand
CloseExecOutcomes == {"set", "raised", "unsupported"}

\* the close-on-exec flag of the intermediary socket
cloexec == cloexec_result = "set"

\* the owners of the listening port inside this process
Owners == (IF isock = "bound" THEN {"intermediary"} ELSE {})
          \cup (IF fsock = "listening" THEN {"full"} ELSE {})

\* the operating system lets a new socket bind host:port
PortFree == ~other_holds /\ ~child_holds /\ Owners = {}

Terminal == {"aborted", "killed", "exited"}

\* Server.run, network setup
run_network_setup ==
    /\ pc = "run_start"
    /\ IF v6_only /\ ~has_v6
       THEN /\ pc' = "aborted"
            /\ host' = host
            /\ port' = port
       ELSE /\ host' = ensure_host(host, has_v6)
            /\ IF HasColon(host') /\ ~has_v6
               THEN pc' = "aborted" /\ port' = port
               ELSE pc' = "create_intermediary" /\ port' = ensure_port(port)
    /\ UNCHANGED <<has_v6, v6_only, sockVars, loopVars, shutVars>>
    /\ UNCHANGED <<startVars>>
    /\ UNCHANGED notServer

\* mutant: the server is bound right after its construction
start_intermediary_server_create_then_bind ==
    /\ pc = "create_intermediary"
    /\ isock' = "open"
    /\ pc' = "server_bind"
    /\ UNCHANGED <<has_v6, v6_only, host, cloexec_result, serve, shutdown_request, fsock,
                   other_holds, child_holds, spawned, loopVars, shutVars>>
    /\ UNCHANGED <<startVars, port, iaddr, faddr>>
    /\ UNCHANGED notServer

\* _start_intermediary_server: ServerClass(..., bind_and_activate=False)
start_intermediary_server_create ==
    /\ pc = "create_intermediary"
    /\ isock' = "open"
    /\ pc' = "set_close_exec"
    /\ UNCHANGED <<has_v6, v6_only, host, cloexec_result, serve, shutdown_request, fsock,
                   other_holds, child_holds, spawned, loopVars, shutVars>>
    /\ UNCHANGED <<startVars, port, iaddr, faddr>>
    /\ UNCHANGED notServer

\* _start_intermediary_server: try set_close_exec(fileno()) except: log
start_intermediary_server_set_close_exec ==
    /\ pc = "set_close_exec"
    /\ \E r \in CloseExecOutcomes : cloexec_result' = r
    /\ pc' = "server_bind"
    /\ UNCHANGED <<has_v6, v6_only, host, isock, serve, shutdown_request, fsock,
                   other_holds, child_holds, spawned, loopVars, shutVars>>
    /\ UNCHANGED <<startVars, port, iaddr, faddr>>
    /\ UNCHANGED notServer

\* mutant: the exception of the bind propagates without server_close()
start_intermediary_server_bind_no_close ==
    /\ pc = "server_bind"
    /\ IF PortFree
       THEN /\ isock' = "bound"
            /\ iaddr' = intermediary_address(host, port, v6_only)
            /\ pc' = "start_thread"
       ELSE /\ isock' = isock
            /\ iaddr' = iaddr
            /\ pc' = "aborted"
    /\ UNCHANGED <<has_v6, v6_only, host, cloexec_result, serve, shutdown_request, fsock,
                   other_holds, child_holds, spawned, loopVars, shutVars>>
    /\ UNCHANGED <<startVars, port, faddr>>
    /\ UNCHANGED notServer

\* _start_intermediary_server: server_bind(), server_activate(); on an
\* exception server_close() and re-raise
start_intermediary_server_bind ==
    /\ pc = "server_bind"
    /\ IF PortFree
       THEN /\ isock' = "bound"
            /\ iaddr' = intermediary_address(host, port, v6_only)
            /\ pc' = "start_thread"
       ELSE /\ isock' = "closed"
            /\ iaddr' = iaddr
            /\ pc' = "aborted"
    /\ UNCHANGED <<has_v6, v6_only, host, cloexec_result, serve, shutdown_request, fsock,
                   other_holds, child_holds, spawned, loopVars, shutVars>>
    /\ UNCHANGED <<startVars, port, faddr>>
    /\ UNCHANGED notServer

\* _start_intermediary_server: the daemon thread running serve_forever()
start_intermediary_server_thread ==
    /\ pc = "start_thread"
    /\ serve' = "serving"
    /\ pc' = "heavy_init"
    /\ UNCHANGED <<has_v6, v6_only, host, isock, cloexec_result, shutdown_request, fsock,
                   other_holds, child_holds, spawned, loopVars, shutVars>>
    /\ UNCHANGED <<startVars, port, iaddr, faddr>>
    /\ UNCHANGED notServer

\* serve(): serve_forever() returns after shutdown() was requested, or
\* raises and the exception is logged
serve_forever_exit ==
    /\ serve = "serving"
    /\ serve' = "stopped"
    /\ UNCHANGED <<runVars, isock, cloexec_result, shutdown_request, fsock, other_holds,
                   child_holds, spawned, loopVars, shutVars>>
    /\ UNCHANGED <<startVars, iaddr, faddr>>
    /\ UNCHANGED notServer

\* Server.run between the start of the intermediary server and its stop
run_heavy_initialization ==
    /\ pc = "heavy_init"
    /\ pc' = "stop_intermediary"
    /\ UNCHANGED <<has_v6, v6_only, host, sockVars, loopVars, shutVars>>
    /\ UNCHANGED <<startVars, port>>
    /\ UNCHANGED notServer

\* mutant: the None check inverted, the routine returns without stopping
stop_intermediary_server_shutdown_inverted ==
    /\ pc = "stop_intermediary"
    /\ IF isock # "none"
       THEN pc' = "listen" /\ shutdown_request' = shutdown_request
       ELSE pc' = "shutdown_wait" /\ shutdown_request' = TRUE
    /\ UNCHANGED <<has_v6, v6_only, host, isock, cloexec_result, serve, fsock, other_holds,
                   child_holds, spawned, loopVars, shutVars>>
    /\ UNCHANGED <<startVars, port, iaddr, faddr>>
    /\ UNCHANGED notServer

\* _stop_intermediary_server: the None check and shutdown()
stop_intermediary_server_shutdown ==
    /\ pc = "stop_intermediary"
    /\ IF isock = "none"
       THEN pc' = "listen" /\ shutdown_request' = shutdown_request
       ELSE pc' = "shutdown_wait" /\ shutdown_request' = TRUE
    /\ UNCHANGED <<has_v6, v6_only, host, isock, cloexec_result, serve, fsock, other_holds,
                   child_holds, spawned, loopVars, shutVars>>
    /\ UNCHANGED <<startVars, port, iaddr, faddr>>
    /\ UNCHANGED notServer

\* mutant: server_close() is left out
stop_intermediary_server_no_close ==
    /\ pc = "shutdown_wait"
    /\ serve = "stopped"
    /\ pc' = "listen"
    /\ UNCHANGED <<has_v6, v6_only, host, isock, cloexec_result, serve, shutdown_request,
                   fsock, other_holds, child_holds, spawned, loopVars, shutVars>>
    /\ UNCHANGED <<startVars, port, iaddr, faddr>>
    /\ UNCHANGED notServer

\* _stop_intermediary_server: shutdown() has returned, server_close()
stop_intermediary_server_close ==
    /\ pc = "shutdown_wait"
    /\ serve = "stopped"
    /\ isock' = "closed"
    /\ pc' = "listen"
    /\ UNCHANGED <<has_v6, v6_only, host, cloexec_result, serve, shutdown_request, fsock,
                   other_holds, child_holds, spawned, loopVars, shutVars>>
    /\ UNCHANGED <<startVars, port, iaddr, faddr>>
    /\ UNCHANGED notServer

\* _initialize_and_bind_server: server.listen(port, address)
initialize_and_bind_server ==
    /\ pc = "listen"
    /\ IF PortFree
       THEN /\ fsock' = "listening"
            /\ faddr' = tornado_listen(port, full_server_address(host, v6_only))
            /\ pc' = "startup"
       ELSE /\ fsock' = fsock
            /\ faddr' = faddr
            /\ pc' = "aborted"
    /\ UNCHANGED <<has_v6, v6_only, host, isock, cloexec_result, serve, shutdown_request,
                   other_holds, child_holds, spawned, loopVars, shutVars>>
    /\ UNCHANGED <<startVars, port, iaddr>>
    /\ UNCHANGED notServer

\* Server.run after the bind: STARTUP, _start_watched_observer (which logs
\* and swallows its own failure), the startup plugins, _trigger_after_startup
\* (which schedules on_after_startup on the IOLoop)
run_startup ==
    /\ pc = "startup"
    /\ \E started \in BOOLEAN : observer' = IF started THEN "running" ELSE "none"
    /\ ioloop_queue' = Append(ioloop_queue, "on_after_startup")
    /\ pc' = "register_shutdown"
    /\ UNCHANGED <<has_v6, v6_only, host, sockVars, sigterm_installed, atexit_registered,
                   signals, has_daemon, sd_pc, shutdown_runs, n_stop, n_join, n_fired,
                   n_daemon, join_warned>>
    /\ UNCHANGED <<startVars, port, sd_steps>>
    /\ UNCHANGED notServer

\* _register_shutdown_handlers: atexit.register, signal.signal
register_shutdown_handlers ==
    /\ pc = "register_shutdown"
    /\ atexit_registered' = TRUE
    /\ sigterm_installed' = TRUE
    /\ pc' = "ioloop"
    /\ UNCHANGED <<has_v6, v6_only, host, sockVars, signals, ioloop_queue, shutVars>>
    /\ UNCHANGED <<startVars, port>>
    /\ UNCHANGED notServer

\* mutant: the handler stops the loop itself
sigterm_handler_stops_loop ==
    /\ pc \notin Terminal
    /\ signals < MaxSignals
    /\ signals' = signals + 1
    /\ IF sigterm_installed
       THEN /\ pc' = IF pc = "ioloop" THEN "run_returned" ELSE pc
            /\ UNCHANGED <<ioloop_queue, fsock, isock>>
       ELSE /\ pc' = "killed"
            /\ fsock' = IF fsock = "listening" THEN "closed" ELSE fsock
            /\ isock' = IF isock \in {"open", "bound"} THEN "closed" ELSE isock
            /\ UNCHANGED ioloop_queue
    /\ UNCHANGED <<has_v6, v6_only, host, cloexec_result, serve, shutdown_request,
                   other_holds, child_holds, spawned, sigterm_installed,
                   atexit_registered, shutVars>>
    /\ UNCHANGED <<startVars, port, iaddr, faddr>>
    /\ UNCHANGED notServer

\* sigterm_handler: add_callback_from_signal(shutdown_tornado); without the
\* handler the default disposition ends the process
sigterm_handler ==
    /\ pc \notin Terminal
    /\ signals < MaxSignals
    /\ signals' = signals + 1
    /\ IF sigterm_installed
       THEN /\ ioloop_queue' = Append(ioloop_queue, "shutdown_tornado")
            /\ UNCHANGED <<pc, fsock, isock>>
       ELSE /\ pc' = "killed"
            /\ fsock' = IF fsock = "listening" THEN "closed" ELSE fsock
            /\ isock' = IF isock \in {"open", "bound"} THEN "closed" ELSE isock
            /\ UNCHANGED ioloop_queue
    /\ UNCHANGED <<has_v6, v6_only, host, cloexec_result, serve, shutdown_request,
                   other_holds, child_holds, spawned, sigterm_installed,
                   atexit_registered, shutVars>>
    /\ UNCHANGED <<startVars, port, iaddr, faddr>>
    /\ UNCHANGED notServer

\* IOLoop.current().start(): the loop runs a scheduled callback;
\* shutdown_tornado stops the loop and run() returns
shutdown_tornado ==
    /\ pc = "ioloop"
    /\ ioloop_queue # <<>>
    /\ Head(ioloop_queue) = "shutdown_tornado"
    /\ ioloop_queue' = Tail(ioloop_queue)
    /\ pc' = "run_returned"
    /\ UNCHANGED <<has_v6, v6_only, host, sockVars, sigterm_installed, atexit_registered,
                   signals, shutVars>>
    /\ UNCHANGED <<startVars, port>>
    /\ UNCHANGED notServer

\* the interpreter exits after the exit hooks: the sockets are closed
process_exit ==
    /\ pc = "run_returned"
    /\ sd_pc = "done"
    /\ pc' = "exited"
    /\ fsock' = "closed"
    /\ UNCHANGED <<has_v6, v6_only, host, isock, cloexec_result, serve, shutdown_request,
                   other_holds, child_holds, spawned, loopVars, shutVars>>
    /\ UNCHANGED <<startVars, port, iaddr, faddr>>
    /\ UNCHANGED notServer

\* environment: a subprocess is spawned and inherits the open port unless
\* the descriptor is marked close-on-exec
spawn_subprocess ==
    /\ pc \notin Terminal
    /\ spawned < MaxSubprocesses
    /\ spawned' = spawned + 1
    /\ child_holds' = (child_holds \/ (isock = "bound" /\ ~cloexec))
    /\ UNCHANGED <<runVars, isock, cloexec_result, serve, shutdown_request, fsock,
                   other_holds, loopVars, shutVars>>
    /\ UNCHANGED <<startVars, iaddr, faddr>>
    /\ UNCHANGED notServer

\* environment: another process binds the port while nobody holds it
other_process_binds ==
    /\ pc \notin Terminal
    /\ PortFree
    /\ other_holds' = TRUE
    /\ UNCHANGED <<runVars, isock, cloexec_result, serve, shutdown_request, fsock,
                   child_holds, spawned, loopVars, shutVars>>
    /\ UNCHANGED <<startVars, iaddr, faddr>>
    /\ UNCHANGED notServer

\* ------------------------------------------------- _trigger_after_startup

\* the IOLoop runs on_after_startup: the log lines, then the thread of work()
on_after_startup ==
    /\ pc = "ioloop"
    /\ ioloop_queue # <<>>
    /\ Head(ioloop_queue) = "on_after_startup"
    /\ ioloop_queue' = Tail(ioloop_queue)
    /\ work' = "running"
    /\ UNCHANGED <<runVars, sockVars, sigterm_installed, atexit_registered, signals,
                   shutVars, cache_thread, n_cache_threads, cache_data, n_replayed>>
    /\ UNCHANGED notServer

\* work(): the after-startup plugins, the startup flag, the backup of the
\* config; one of them raises and ends the thread, or the setting
\* devel.cache.preemptive is read
work_afterstartup ==
    /\ pc \notin Terminal
    /\ work = "running"
    /\ \E raises \in BOOLEAN, preemptive \in BOOLEAN :
          work' = IF raises THEN "failed" ELSE IF preemptive THEN "caching" ELSE "done"
    /\ UNCHANGED <<runVars, sockVars, loopVars, shutVars, cache_thread, n_cache_threads,
                   cache_data, n_replayed>>
    /\ UNCHANGED notServer

\* mutant: the pass is started again after the worker was started
execute_preemptive_flask_caching_again ==
    /\ pc \notin Terminal
    /\ work = "caching"
    /\ n_cache_threads < 2
    /\ \E entries \in 1..MaxCacheEntries :
          /\ cache_thread' = "running"
          /\ n_cache_threads' = n_cache_threads + 1
          /\ cache_data' = entries
          /\ work' = work
    /\ UNCHANGED <<runVars, sockVars, loopVars, shutVars, n_replayed>>
    /\ UNCHANGED notServer

\* _execute_preemptive_flask_caching: the entries are filtered; without
\* entries it returns, else it starts the Preemptive Cache Worker
execute_preemptive_flask_caching ==
    /\ pc \notin Terminal
    /\ work = "caching"
    /\ \E entries \in 0..MaxCacheEntries :
          IF entries = 0
          THEN UNCHANGED <<cache_thread, n_cache_threads, cache_data>>
          ELSE /\ cache_thread' = "running"
               /\ n_cache_threads' = n_cache_threads + 1
               /\ cache_data' = entries
    /\ work' = "done"
    /\ UNCHANGED <<runVars, sockVars, loopVars, shutVars, n_replayed>>
    /\ UNCHANGED notServer

\* execute_caching, one round of the loops: the entry is skipped, or its
\* request is dispatched (an exception of the dispatch is logged)
execute_caching ==
    /\ pc \notin Terminal
    /\ cache_thread = "running"
    /\ cache_data > 0
    /\ cache_data' = cache_data - 1
    /\ \E skipped \in BOOLEAN : n_replayed' = IF skipped THEN n_replayed ELSE n_replayed + 1
    /\ UNCHANGED <<runVars, sockVars, loopVars, shutVars, work, cache_thread,
                   n_cache_threads>>
    /\ UNCHANGED notServer

\* execute_caching returns, the worker ends
execute_caching_return ==
    /\ pc \notin Terminal
    /\ cache_thread = "running"
    /\ cache_data = 0
    /\ cache_thread' = "done"
    /\ UNCHANGED <<runVars, sockVars, loopVars, shutVars, work, n_cache_threads,
                   cache_data, n_replayed>>
    /\ UNCHANGED notServer

\* ------------------------------------------------------------ on_shutdown

\* the exit hook runs on_shutdown once run() has returned; a further
\* invocation of the routine starts after the previous one has finished
on_shutdown_begin ==
    /\ atexit_registered
    /\ pc = "run_returned"
    /\ sd_pc \in {"idle", "done"}
    /\ shutdown_runs < MaxShutdownRuns
    /\ shutdown_runs' = shutdown_runs + 1
    /\ sd_pc' = "observer"
    /\ join_warned' = FALSE
    /\ sd_steps' = <<>>
    /\ UNCHANGED <<runVars, sockVars, loopVars, observer, has_daemon, n_stop, n_join,
                   n_fired, n_daemon>>
    /\ UNCHANGED <<startVars>>
    /\ UNCHANGED notServer

\* what observer.stop() does to the observer thread
observer_stop(o) == IF o = "running" THEN "stopping" ELSE o

\* mutant: the observer is stopped and not joined
on_shutdown_stop_observer_no_join ==
    /\ sd_pc = "observer"
    /\ IF observer # "none"
       THEN /\ observer' = observer_stop(observer)
            /\ n_stop' = n_stop + 1
            /\ sd_steps' = Append(sd_steps, "observer.stop")
            /\ sd_pc' = "fire"
       ELSE /\ sd_pc' = "fire"
            /\ UNCHANGED <<observer, n_stop, sd_steps>>
    /\ UNCHANGED <<runVars, sockVars, loopVars, has_daemon, shutdown_runs, n_join,
                   n_fired, n_daemon, join_warned>>
    /\ UNCHANGED <<startVars>>
    /\ UNCHANGED notServer

\* on_shutdown: if self._watched_observer: self._watched_observer.stop()
on_shutdown_stop_observer ==
    /\ sd_pc = "observer"
    /\ IF observer # "none"
       THEN /\ observer' = observer_stop(observer)
            /\ n_stop' = n_stop + 1
            /\ sd_steps' = Append(sd_steps, "observer.stop")
            /\ sd_pc' = "join"
       ELSE /\ sd_pc' = "fire"
            /\ UNCHANGED <<observer, n_stop, sd_steps>>
    /\ UNCHANGED <<runVars, sockVars, loopVars, has_daemon, shutdown_runs, n_join,
                   n_fired, n_daemon, join_warned>>
    /\ UNCHANGED <<startVars>>
    /\ UNCHANGED notServer

\* the observer thread after stop(): it leaves its loop, or it never does
\* (a handler that does not return)
observer_thread ==
    /\ observer = "stopping"
    /\ \E o \in {"terminated", "stuck"} : observer' = o
    /\ UNCHANGED <<runVars, sockVars, loopVars, has_daemon, sd_pc, shutdown_runs, n_stop,
                   n_join, n_fired, n_daemon, join_warned>>
    /\ UNCHANGED <<startVars, sd_steps>>
    /\ UNCHANGED notServer

\* on_shutdown: self._watched_observer.join(), without a timeout
on_shutdown_join_observer ==
    /\ sd_pc = "join"
    /\ observer = "terminated"
    /\ n_join' = n_join + 1
    /\ sd_steps' = Append(sd_steps, "observer.join")
    /\ sd_pc' = "fire"
    /\ UNCHANGED <<runVars, sockVars, loopVars, observer, has_daemon, shutdown_runs,
                   n_stop, n_fired, n_daemon, join_warned>>
    /\ UNCHANGED <<startVars>>
    /\ UNCHANGED notServer

\* on_shutdown: eventManager.fire(events.Events.SHUTDOWN)
on_shutdown_fire ==
    /\ sd_pc = "fire"
    /\ n_fired' = n_fired + 1
    /\ sd_steps' = Append(sd_steps, "fire")
    /\ sd_pc' = "plugins"
    /\ UNCHANGED <<runVars, sockVars, loopVars, observer, has_daemon, shutdown_runs,
                   n_stop, n_join, n_daemon, join_warned>>
    /\ UNCHANGED <<startVars>>
    /\ UNCHANGED notServer

\* on_shutdown: self._call_shutdown_plugins(); a plugin's on_shutdown
\* returns, or it never does
on_shutdown_call_plugins ==
    /\ sd_pc = "plugins"
    /\ \E returns \in BOOLEAN : sd_pc' = IF returns THEN "event_join" ELSE "plugins_stuck"
    /\ sd_steps' = Append(sd_steps, "call_shutdown_plugins")
    /\ UNCHANGED <<runVars, sockVars, loopVars, observer, has_daemon, shutdown_runs,
                   n_stop, n_join, n_fired, n_daemon, join_warned>>
    /\ UNCHANGED <<startVars>>
    /\ UNCHANGED notServer

\* on_shutdown: eventManager.join(timeout=15.0) and the warning
on_shutdown_event_join ==
    /\ sd_pc = "event_join"
    /\ \E timed_out \in BOOLEAN : join_warned' = timed_out
    /\ sd_steps' = Append(sd_steps, "eventManager.join")
    /\ sd_pc' = "daemon"
    /\ UNCHANGED <<runVars, sockVars, loopVars, observer, has_daemon, shutdown_runs,
                   n_stop, n_join, n_fired, n_daemon>>
    /\ UNCHANGED <<startVars>>
    /\ UNCHANGED notServer

\* on_shutdown: the daemon's terminated() and the final log line
on_shutdown_daemon ==
    /\ sd_pc = "daemon"
    /\ n_daemon' = IF has_daemon THEN n_daemon + 1 ELSE n_daemon
    /\ sd_steps' = IF has_daemon THEN Append(sd_steps, "daemon.terminated") ELSE sd_steps
    /\ sd_pc' = "done"
    /\ UNCHANGED <<runVars, sockVars, loopVars, observer, has_daemon, shutdown_runs,
                   n_stop, n_join, n_fired, join_warned>>
    /\ UNCHANGED <<startVars>>
    /\ UNCHANGED notServer

\* the steps of the routine itself
on_shutdown ==
    \/ on_shutdown_begin
    \/ on_shutdown_stop_observer
    \/ on_shutdown_join_observer
    \/ on_shutdown_fire
    \/ on_shutdown_call_plugins
    \/ on_shutdown_event_join
    \/ on_shutdown_daemon

\* ------------------------------------------------------- the server's Spec

ServerInit ==
    /\ has_v6 \in BOOLEAN
    /\ v6_only \in BOOLEAN
    /\ host \in Hosts
    /\ port \in Ports
    /\ pc = "run_start"
    /\ isock = "none"
    /\ cloexec_result = "pending"
    /\ serve = "none"
    /\ shutdown_request = FALSE
    /\ fsock = "none"
    /\ other_holds = FALSE
    /\ child_holds = FALSE
    /\ spawned = 0
    /\ iaddr = NoAddress
    /\ faddr = NoAddress
    /\ sigterm_installed = FALSE
    /\ atexit_registered = FALSE
    /\ signals = 0
    /\ ioloop_queue = <<>>
    /\ observer = "none"
    /\ has_daemon \in BOOLEAN
    /\ sd_pc = "idle"
    /\ shutdown_runs = 0
    /\ n_stop = 0
    /\ n_join = 0
    /\ n_fired = 0
    /\ n_daemon = 0
    /\ join_warned = FALSE
    /\ sd_steps = <<>>
    /\ work = "none"
    /\ cache_thread = "none"
    /\ n_cache_threads = 0
    /\ cache_data = 0
    /\ n_replayed = 0

ServerNext ==
    \/ run_network_setup
    \/ start_intermediary_server_create
    \/ start_intermediary_server_set_close_exec
    \/ start_intermediary_server_bind
    \/ start_intermediary_server_thread
    \/ serve_forever_exit
    \/ run_heavy_initialization
    \/ stop_intermediary_server_shutdown
    \/ stop_intermediary_server_close
    \/ initialize_and_bind_server
    \/ run_startup
    \/ register_shutdown_handlers
    \/ sigterm_handler
    \/ shutdown_tornado
    \/ process_exit
    \/ spawn_subprocess
    \/ other_process_binds
    \/ on_after_startup
    \/ work_afterstartup
    \/ execute_preemptive_flask_caching
    \/ execute_caching
    \/ execute_caching_return
    \/ on_shutdown_begin
    \/ on_shutdown_stop_observer
    \/ observer_thread
    \/ on_shutdown_join_observer
    \/ on_shutdown_fire
    \/ on_shutdown_call_plugins
    \/ on_shutdown_event_join
    \/ on_shutdown_daemon

\* ------------------------------------------------------ LifecycleManager

PluginEvents == {"loaded", "unloaded", "enabled", "disabled"}
Callbacks == {"A", "B"}
PluginNames == {"pluginX", "pluginY"}

\* a handler is the sequence of the calls it makes; the plugin manager's own
\* on_plugin_<event> method
plugin_manager_handler(event) == <<[kind |-> "plugin_manager", event |-> event]>>

\* wrap_plugin_event: the handler that runs orig_handler, then new_handler
wrap_plugin_event(orig_handler, new_handler) == orig_handler \o new_handler

\* on_plugin_event_factory: the closure that calls self.on_plugin_event
on_plugin_event_factory(lifecycle_event) ==
    <<[kind |-> "lifecycle", event |-> lifecycle_event]>>

NoNotification ==
    [seen |-> FALSE, event |-> "loaded", name |-> "pluginX", orig |-> FALSE,
     forwarded |-> FALSE]

\* LifecycleManager.__init__: the loop builds the four wrapped handlers and
\* stores none of them, the plugin manager keeps its own handlers
LifecycleManager_init(handlers) ==
    LET wrapped == [e \in PluginEvents |->
                      wrap_plugin_event(handlers[e], on_plugin_event_factory(e))]
    IN  handlers

\* the registrations held for all events
Registrations ==
    LET RECURSIVE Sum(_)
        Sum(S) == IF S = {} THEN 0
                  ELSE LET e == CHOOSE x \in S : TRUE
                       IN  Len(lm_callbacks[e]) + Sum(S \ {e})
    IN  Sum(PluginEvents)

\* callback in list
Contains(list, callback) == \E i \in 1..Len(list) : list[i] = callback

\* list.remove(callback): the first occurrence is dropped
ListRemove(list, callback) ==
    LET first == CHOOSE i \in 1..Len(list) :
                    /\ list[i] = callback
                    /\ \A j \in 1..(i - 1) : list[j] # callback
    IN  SubSeq(list, 1, first - 1) \o SubSeq(list, first + 1, Len(list))

LmIdle == lm_pc # "dispatch"

\* the record of the last dispatch is dropped when the registrations change
LmForget ==
    /\ lm_pc' = "idle"
    /\ lm_invoked' = <<>>
    /\ lm_index' = 1
    /\ lm_event' = "loaded"
    /\ lm_name' = "pluginX"
    /\ lm_start' = <<>>

\* LifecycleManager.add_callback
add_callback ==
    /\ LmIdle
    /\ \E events \in (SUBSET PluginEvents) \ {{}}, callback \in Callbacks :
          /\ Registrations + Cardinality(events) <= MaxRegistrations
          /\ lm_callbacks' = [e \in PluginEvents |->
                                IF e \in events THEN Append(lm_callbacks[e], callback)
                                ELSE lm_callbacks[e]]
    /\ LmForget
    /\ pm_last' = NoNotification
    /\ lm_removed' = "none"
    /\ UNCHANGED <<notLifecycle, pm_handler>>

\* remove_callback: both branches drop the first occurrence of the callback
\* from the list of every event they visit that holds it
remove_callback_from(callback, events) ==
    [e \in PluginEvents |->
        IF e \in events /\ Contains(lm_callbacks[e], callback)
        THEN ListRemove(lm_callbacks[e], callback)
        ELSE lm_callbacks[e]]

\* LifecycleManager.remove_callback; events=None visits every event of the
\* dictionary, which is the call with all events
remove_callback ==
    /\ LmIdle
    /\ \E events_is_none \in BOOLEAN, events \in (SUBSET PluginEvents) \ {{}},
          callback \in Callbacks :
          /\ events_is_none => events = PluginEvents
          /\ \E e \in events : Contains(lm_callbacks[e], callback)
          /\ lm_callbacks' = remove_callback_from(callback, events)
          /\ lm_removed' = IF events_is_none THEN callback ELSE "none"
    /\ LmForget
    /\ pm_last' = NoNotification
    /\ UNCHANGED <<notLifecycle, pm_handler>>

\* on_plugin_event is entered: the for loop starts at the head of the list
on_plugin_event_enter(event, name) ==
    /\ lm_pc' = "dispatch"
    /\ lm_event' = event
    /\ lm_name' = name
    /\ lm_index' = 1
    /\ lm_invoked' = <<>>
    /\ lm_start' = lm_callbacks[event]

\* what a callback does to the list of the event it is called for, through
\* add_callback(event, callback) or remove_callback(callback, event)
NoEffect == [op |-> "none", callback |-> "A"]
CallbackEffects == {NoEffect} \cup [op : {"remove", "add"}, callback : Callbacks]

callback_effect(list, effect) ==
    CASE effect.op = "none" -> list
      [] effect.op = "add" -> Append(list, effect.callback)
      [] effect.op = "remove" -> ListRemove(list, effect.callback)

\* LifecycleManager.on_plugin_event called by a holder of the manager
on_plugin_event ==
    /\ LmIdle
    /\ \E event \in PluginEvents, name \in PluginNames : on_plugin_event_enter(event, name)
    /\ pm_last' = NoNotification
    /\ UNCHANGED <<notLifecycle, pm_handler, lm_callbacks, lm_removed>>

\* the plugin manager raises on_plugin_<event>(name, plugin): it runs the
\* handler it holds for the event
plugin_manager_notify ==
    /\ LmIdle
    /\ \E event \in PluginEvents, name \in PluginNames :
          LET handler == pm_handler[event]
              forwards == {i \in 1..Len(handler) : handler[i].kind = "lifecycle"}
          IN  /\ pm_last' = [seen |-> TRUE, event |-> event, name |-> name,
                             orig |-> handler[1].kind = "plugin_manager",
                             forwarded |-> \E i \in forwards : handler[i].event = event]
              /\ IF forwards = {}
                 THEN LmForget
                 ELSE on_plugin_event_enter(handler[CHOOSE i \in forwards : TRUE].event,
                                            name)
    /\ UNCHANGED <<notLifecycle, pm_handler, lm_callbacks, lm_removed>>

\* the loop body: lifecycle_callback(name, plugin); the callback returns,
\* with or without having changed the list the for loop iterates over, or
\* it raises, and nothing around the call catches; the list iterator goes
\* on with the next index
on_plugin_event_call ==
    /\ lm_pc = "dispatch"
    /\ lm_index <= Len(lm_callbacks[lm_event])
    /\ \E raises \in BOOLEAN, effect \in CallbackEffects :
          LET list == lm_callbacks[lm_event]
          IN  /\ raises => effect = NoEffect
              /\ effect.op = "remove" => Contains(list, effect.callback)
              /\ effect.op = "add" => Registrations < MaxRegistrations
              /\ lm_callbacks' = [lm_callbacks EXCEPT ![lm_event] = callback_effect(list, effect)]
              /\ lm_invoked' = Append(lm_invoked,
                    [callback |-> list[lm_index], name |-> lm_name,
                     raised |-> raises, effect |-> effect])
              /\ lm_pc' = IF raises THEN "raised" ELSE "dispatch"
              /\ lm_index' = IF raises THEN lm_index ELSE lm_index + 1
    /\ UNCHANGED <<notLifecycle, pm_handler, pm_last, lm_event, lm_name, lm_removed,
                   lm_start>>

\* the loop is exhausted, on_plugin_event returns
on_plugin_event_return ==
    /\ lm_pc = "dispatch"
    /\ lm_index > Len(lm_callbacks[lm_event])
    /\ lm_pc' = "returned"
    /\ UNCHANGED <<notLifecycle, pm_handler, pm_last, lm_callbacks, lm_event, lm_name,
                   lm_index, lm_invoked, lm_removed, lm_start>>

LifecycleInit ==
    /\ pm_handler = LifecycleManager_init([e \in PluginEvents |-> plugin_manager_handler(e)])
    /\ pm_last = NoNotification
    /\ lm_callbacks = [e \in PluginEvents |-> <<>>]
    /\ lm_pc = "idle"
    /\ lm_event = "loaded"
    /\ lm_name = "pluginX"
    /\ lm_index = 1
    /\ lm_invoked = <<>>
    /\ lm_removed = "none"
    /\ lm_start = <<>>

LifecycleNext ==
    \/ add_callback
    \/ remove_callback
    \/ on_plugin_event
    \/ plugin_manager_notify
    \/ on_plugin_event_call
    \/ on_plugin_event_return

\* -------------------------------------------------- _get_server_handlers

\* strings the code takes apart are sequences of tokens, "/" being one
\* the plugins with an octoprint.server.http.access_validator hook, in the
\* order of get_hooks
AccessPlugins == <<"av1", "av2">>
\* the plugins with an octoprint.server.http.routes hook, in the order of
\* get_hooks
RoutePlugins == <<"p1", "p2">>

Range(seq) == {seq[i] : i \in 1..Len(seq)}

\* a dict literal, from its key/value pairs
Dict(pairs) ==
    [k \in {p[1] : p \in Range(pairs)} |->
        LET last == CHOOSE i \in 1..Len(pairs) :
                       /\ pairs[i][1] = k
                       /\ \A j \in (i + 1)..Len(pairs) : pairs[j][1] # k
        IN  pairs[last][2]]

EmptyDict == [k \in {} |-> "none"]

\* dict.update
DictUpdate(d, e) ==
    [k \in DOMAIN d \cup DOMAIN e |-> IF k \in DOMAIN e THEN e[k] ELSE d[k]]

\* joined_dict
RECURSIVE joined_dict(_)
joined_dict(dicts) ==
    IF dicts = <<>> THEN EmptyDict
    ELSE DictUpdate(joined_dict(SubSeq(dicts, 1, Len(dicts) - 1)), dicts[Len(dicts)])

\* util.tornado.access_validation_factory(app, validator, *args)
access_validation_factory(validator, arg) == [validator |-> validator, arg |-> arg]

\* util.tornado.validation_chain(*validators)
validation_chain(validators) == validators

\* util.tornado.path_validation_factory(predicate, status_code)
path_validation_factory(predicate, status_code) ==
    [predicate |-> predicate, status_code |-> status_code]

\* the loop over the access validator hooks: a hook whose factory raises is
\* logged and left out
RECURSIVE collect_access_validators(_, _)
collect_access_validators(plugins, raises) ==
    IF plugins = <<>> THEN <<>>
    ELSE LET rest == collect_access_validators(Tail(plugins), raises)
         IN  IF Head(plugins) \in raises THEN rest
             ELSE <<access_validation_factory("plugin_hook", Head(plugins))>> \o rest

\* mutant: the plugin validators are put in front of the permission validator
access_validators_plugins_first(permission, from_plugins) ==
    from_plugins \o <<access_validation_factory("permission_validator", permission)>>

\* timelapse_validators, download_validators, log_validators,
\* camera_validators, systeminfo_validators
access_validators(permission, from_plugins) ==
    <<access_validation_factory("permission_validator", permission)>> \o from_plugins

permission_validator(permission, from_plugins) ==
    Dict(<< <<"access_validation",
              validation_chain(access_validators(permission, from_plugins))>> >>)

download_handler_kwargs ==
    Dict(<< <<"as_attachment", "True">>, <<"allow_client_caching", "False">> >>)

additional_mime_types == Dict(<< <<"mime_type_guesser", "mime_type_guesser">> >>)

no_hidden_files_validator ==
    Dict(<< <<"path_validation", path_validation_factory("not_hidden", "404")>> >>)

only_known_types_validator ==
    Dict(<< <<"path_validation", path_validation_factory("valid_file_type", "404")>> >>)

bulkdownloads_path_validator ==
    Dict(<< <<"path_validation",
              path_validation_factory("not_hidden_valid_type_in_uploads", "default")>> >>)

timelapse_path_validator ==
    Dict(<< <<"path_validation", path_validation_factory("valid_timelapse", "404")>> >>)

timelapses_path_validator ==
    Dict(<< <<"path_validation",
              path_validation_factory("valid_timelapse_in_folder", "400")>> >>)

log_path_validator ==
    Dict(<< <<"path_validation", path_validation_factory("valid_log", "404")>> >>)

logs_path_validator ==
    Dict(<< <<"path_validation", path_validation_factory("valid_log_in_folder", "400")>> >>)

Route(pattern, handler, options) ==
    [pattern |-> pattern, handler |-> handler, options |-> options]

\* server_routes = self._router.urls + [...]
builtin_routes(from_plugins) ==
    LET timelapse == permission_validator("TIMELAPSE_LIST", from_plugins)
        download == permission_validator("FILES_DOWNLOAD", from_plugins)
        log == permission_validator("PLUGIN_LOGGING_MANAGE", from_plugins)
        camera == permission_validator("WEBCAM", from_plugins)
        systeminfo == permission_validator("SYSTEM", from_plugins)
    IN  <<
        Route(<<"/", "sockjs", "/", "(.*)">>, "SockJSRouter", EmptyDict),
        Route(<<"/", "downloads", "/", "timelapse", "/", "(.*)">>, "LargeResponseHandler",
              joined_dict(<<Dict(<< <<"path", "timelapse">> >>), timelapse,
                            download_handler_kwargs, timelapse_path_validator>>)),
        Route(<<"/", "downloads", "/", "timelapses">>, "DynamicZipBundleHandler",
              joined_dict(<<Dict(<< <<"as_attachment", "True">>,
                                    <<"attachment_name", "octoprint-timelapses.zip">>,
                                    <<"path_processor", "timelapse">> >>),
                            timelapse, timelapses_path_validator>>)),
        Route(<<"/", "downloads", "/", "files", "/", "local", "/", "(.*)">>,
              "LargeResponseHandler",
              joined_dict(<<Dict(<< <<"path", "uploads">>, <<"as_attachment", "True">>,
                                    <<"name_generator", "download_name_generator">> >>),
                            download, download_handler_kwargs, no_hidden_files_validator,
                            only_known_types_validator, additional_mime_types>>)),
        Route(<<"/", "downloads", "/", "files", "/", "local">>, "DynamicZipBundleHandler",
              joined_dict(<<Dict(<< <<"as_attachment", "True">>,
                                    <<"attachment_name", "octoprint-files.zip">>,
                                    <<"path_processor", "uploads">> >>),
                            download, bulkdownloads_path_validator>>)),
        Route(<<"/", "downloads", "/", "logs", "/", "([^/]*)">>, "LargeResponseHandler",
              joined_dict(<<Dict(<< <<"path", "logs">>,
                                    <<"mime_type_guesser", "text/plain">>,
                                    <<"stream_body", "True">> >>),
                            download_handler_kwargs, log, log_path_validator>>)),
        Route(<<"/", "downloads", "/", "logs">>, "DynamicZipBundleHandler",
              joined_dict(<<Dict(<< <<"as_attachment", "True">>,
                                    <<"attachment_name", "octoprint-logs.zip">>,
                                    <<"path_processor", "logs">> >>),
                            log, logs_path_validator>>)),
        Route(<<"/", "downloads", "/", "systeminfo.zip">>, "SystemInfoBundleHandler",
              systeminfo),
        Route(<<"/", "downloads", "/", "camera", "/", "current">>, "WebcamSnapshotHandler",
              joined_dict(<<Dict(<< <<"as_attachment", "snapshot">> >>), camera>>)),
        Route(<<"/", "static", "/", "webassets", "/", "(.*)">>, "LargeResponseHandler",
              Dict(<< <<"path", "webassets">>, <<"is_pre_compressed", "True">> >>)),
        Route(<<"/", "online.txt">>, "StaticDataHandler", Dict(<< <<"data", "online">> >>)),
        Route(<<"/", "online.gif">>, "StaticDataHandler",
              Dict(<< <<"data", "gif">>, <<"content_type", "image/gif">> >>)),
        Route(<<"/", "api", "/", "logs">>, "DeprecatedEndpointHandler",
              Dict(<< <<"url", "/plugin/logging/logs">> >>)),
        Route(<<"/", "api", "/", "logs", "/", "(.*)">>, "DeprecatedEndpointHandler",
              Dict(<< <<"url", "/plugin/logging/logs/{0}">> >>))
        >>

\* mutant: the route of the hook is taken as it is
plugin_route_as_given(name, route) == route

\* r"/plugin/{name}/{route}" with a leading "/" of the route dropped
plugin_route(name, route) ==
    <<"/", "plugin", "/", name, "/">>
        \o (IF route # <<>> /\ Head(route) = "/" THEN Tail(route) ELSE route)

\* what a plugin route hook returns: the shapes of an entry of its result
EntryShapes == {"ok", "not_tuple3", "pattern_not_str", "options_not_dict"}
HookRoutes == {<<"a">>, <<"/", "a">>, <<"b">>}
HookEntries ==
    [shape : {"ok"}, route : HookRoutes]
        \cup [shape : EntryShapes \ {"ok"}, route : {<<"a">>}]

SeqsUpTo(S, n) == UNION {[1..k -> S] : k \in 0..n}

HookResults ==
    {[kind |-> "raises", entries |-> <<>>], [kind |-> "not_a_list", entries |-> <<>>]}
        \cup [kind : {"list"}, entries : SeqsUpTo(HookEntries, MaxEntries)]

\* the loop over the entries of one hook's result
RECURSIVE plugin_routes(_, _)
plugin_routes(name, entries) ==
    IF entries = <<>> THEN <<>>
    ELSE LET entry == Head(entries)
             rest == plugin_routes(name, Tail(entries))
         IN  IF entry.shape # "ok" THEN rest
             ELSE <<Route(plugin_route(name, entry.route), "PluginHandler", EmptyDict)>>
                      \o rest

\* the path a request asks for, by what the predicates of the path
\* validations look at
Path(hidden, known_type, timelapse, log, in_folder) ==
    [given |-> TRUE, hidden |-> hidden, known_type |-> known_type,
     timelapse |-> timelapse, log |-> log, in_folder |-> in_folder]

NoPath ==
    [given |-> FALSE, hidden |-> FALSE, known_type |-> FALSE, timelapse |-> FALSE,
     log |-> FALSE, in_folder |-> FALSE]

\* model.gcode, .secret.gcode, notes.xyz, .notes.xyz, video.mp4,
\* octoprint.log and ../model.gcode
Paths ==
    {Path(FALSE, TRUE, FALSE, FALSE, TRUE),
     Path(TRUE, TRUE, FALSE, FALSE, TRUE),
     Path(FALSE, FALSE, FALSE, FALSE, TRUE),
     Path(TRUE, FALSE, FALSE, FALSE, TRUE),
     Path(FALSE, FALSE, TRUE, FALSE, TRUE),
     Path(FALSE, FALSE, FALSE, TRUE, TRUE),
     Path(FALSE, TRUE, FALSE, FALSE, FALSE)}

\* the lambdas handed to path_validation_factory
path_predicate(predicate, path) ==
    CASE predicate = "not_hidden" -> ~path.hidden
      [] predicate = "valid_file_type" -> path.known_type
      [] predicate = "not_hidden_valid_type_in_uploads" ->
             ~path.hidden /\ path.known_type /\ path.in_folder
      [] predicate = "valid_timelapse" -> ~path.hidden /\ path.timelapse
      [] predicate = "valid_timelapse_in_folder" ->
             ~path.hidden /\ path.timelapse /\ path.in_folder
      [] predicate = "valid_log" -> ~path.hidden /\ path.log
      [] predicate = "valid_log_in_folder" -> ~path.hidden /\ path.log /\ path.in_folder

NoRequest ==
    [seen |-> FALSE, route |-> 1, access_called |-> <<>>, path_called |-> FALSE,
     handler_called |-> FALSE, status |-> "none", path |-> NoPath]

\* what a hook can do with the list(server_routes) it is called with: the
\* list is a copy, the option dicts in its tuples are those of the table;
\* here options.pop("path_validation") on the timelapse download route
hook_mutation(routes) ==
    [routes EXCEPT ![2].options =
        [k \in DOMAIN routes[2].options \ {"path_validation"} |-> routes[2].options[k]]]

\* the loop over the access validator hooks
get_server_handlers_access_validators ==
    /\ rt_pc = "validators"
    /\ \E raises \in SUBSET Range(AccessPlugins) :
          access_validators_from_plugins' = collect_access_validators(AccessPlugins, raises)
    /\ rt_pc' = "routes"
    /\ UNCHANGED <<notRoutes, server_routes, rt_hook, bsVars, last_request>>

\* the validators, the option dicts and the built-in routes
get_server_handlers_server_routes ==
    /\ rt_pc = "routes"
    /\ server_routes' = builtin_routes(access_validators_from_plugins)
    /\ rt_hook' = 1
    /\ rt_pc' = "hooks"
    /\ UNCHANGED <<notRoutes, access_validators_from_plugins, bsVars, last_request>>

\* one round of the loop over the plugin route hooks
get_server_handlers_plugin_routes ==
    /\ rt_pc = "hooks"
    /\ rt_hook <= Len(RoutePlugins)
    /\ \E result \in HookResults, mutates \in BOOLEAN :
          LET handed == IF mutates THEN hook_mutation(server_routes) ELSE server_routes
          IN  server_routes' =
                  IF result.kind = "list"
                  THEN handed \o plugin_routes(RoutePlugins[rt_hook], result.entries)
                  ELSE handed
    /\ rt_hook' = rt_hook + 1
    /\ UNCHANGED <<notRoutes, rt_pc, access_validators_from_plugins, bsVars, last_request>>

\* the catch-all route of the table
fallback_route ==
    Route(<<".*">>, "UploadStorageFallbackHandler",
          Dict(<< <<"fallback", "WsgiInputContainer">>,
                  <<"file_prefix", "octoprint-file-upload-">>,
                  <<"file_suffix", ".tmp">>,
                  <<"suffixes", "upload_suffixes">> >>))

\* mutant: the catch-all route is put in front of the table
get_server_handlers_fallback_first ==
    /\ rt_pc = "hooks"
    /\ rt_hook > Len(RoutePlugins)
    /\ server_routes' = <<fallback_route>> \o server_routes
    /\ rt_pc' = "assembled"
    /\ UNCHANGED <<notRoutes, access_validators_from_plugins, rt_hook, bsVars, last_request>>

\* the catch-all route is appended and the table returned
get_server_handlers_fallback ==
    /\ rt_pc = "hooks"
    /\ rt_hook > Len(RoutePlugins)
    /\ server_routes' = Append(server_routes, fallback_route)
    /\ rt_pc' = "assembled"
    /\ UNCHANGED <<notRoutes, access_validators_from_plugins, rt_hook, bsVars, last_request>>

\* ------------------------------------------------- _get_max_body_sizes

\* the plugins with an octoprint.server.http.bodysize hook, in the order of
\* get_hooks
BodySizePlugins == <<"b1", "b2">>

BodySize(method, pattern, size) == [method |-> method, pattern |-> pattern, size |-> size]

\* max_body_sizes = [...]
builtin_body_sizes ==
    <<BodySize("POST", <<"/", "api", "/", "files", "/", "([^/]*)">>,
               "server.uploads.maxSize"),
      BodySize("POST", <<"/", "api", "/", "languages">>, "5 * 1024 * 1024")>>

\* what a body size hook returns: the shapes of an entry of its result
BodySizeShapes ==
    {"ok", "not_tuple3", "unsupported_method", "size_not_int", "route_not_str"}
BodySizeRoutes == {<<"a">>, <<"/", "a">>, <<"b">>}
BodySizeEntries ==
    [shape : {"ok"}, route : BodySizeRoutes]
        \cup [shape : BodySizeShapes \ {"ok"}, route : {<<"a">>}]

BodySizeResults ==
    {[kind |-> "raises", entries |-> <<>>], [kind |-> "not_a_list", entries |-> <<>>]}
        \cup [kind : {"list"}, entries : SeqsUpTo(BodySizeEntries, MaxEntries)]

\* the loop over the entries of one hook's result: three checks that skip an
\* entry, then route.startswith("/") on whatever the entry holds as route,
\* which raises for a route that is no string; nothing catches there
RECURSIVE plugin_body_sizes(_, _)
plugin_body_sizes(name, entries) ==
    IF entries = <<>> THEN [raised |-> FALSE, sizes |-> <<>>]
    ELSE LET entry == Head(entries)
             rest == plugin_body_sizes(name, Tail(entries))
         IN  IF entry.shape \in {"not_tuple3", "unsupported_method", "size_not_int"}
             THEN rest
             ELSE IF entry.shape = "route_not_str"
             THEN [raised |-> TRUE, sizes |-> <<>>]
             ELSE [raised |-> rest.raised,
                   sizes |-> <<BodySize("POST", plugin_route(name, entry.route), "size")>>
                                \o rest.sizes]

\* _get_max_body_sizes is entered; it reads nothing of the route table
get_max_body_sizes_enter ==
    /\ bs_pc = "waiting"
    /\ max_body_sizes' = builtin_body_sizes
    /\ bs_hook' = 1
    /\ bs_pc' = "hooks"
    /\ UNCHANGED <<notRoutes, rt_pc, access_validators_from_plugins, server_routes, rt_hook,
                   last_request>>

\* one round of the loop over the body size hooks
get_max_body_sizes_hook ==
    /\ bs_pc = "hooks"
    /\ bs_hook <= Len(BodySizePlugins)
    /\ \E result \in BodySizeResults :
          LET added == plugin_body_sizes(BodySizePlugins[bs_hook], result.entries)
          IN  IF result.kind = "list" /\ added.raised
              THEN /\ bs_pc' = "aborted"
                   /\ UNCHANGED <<max_body_sizes, bs_hook>>
              ELSE /\ max_body_sizes' = IF result.kind = "list"
                                        THEN max_body_sizes \o added.sizes
                                        ELSE max_body_sizes
                   /\ bs_hook' = bs_hook + 1
                   /\ bs_pc' = bs_pc
    /\ UNCHANGED <<notRoutes, rt_pc, access_validators_from_plugins, server_routes, rt_hook,
                   last_request>>

\* the list is returned
get_max_body_sizes_return ==
    /\ bs_pc = "hooks"
    /\ bs_hook > Len(BodySizePlugins)
    /\ bs_pc' = "assembled"
    /\ UNCHANGED <<notRoutes, rt_pc, access_validators_from_plugins, server_routes, rt_hook,
                   max_body_sizes, bs_hook, last_request>>

\* the verdicts of validators: "allow", or the status of the denial
Denials == {"401", "403"}

\* a validation chain called with the verdicts its validators would give:
\* the calls made, up to and with the first denial
run_chain(chain, verdicts) ==
    LET denying == {i \in 1..Len(chain) : verdicts[i] \in Denials}
        last == IF denying = {} THEN Len(chain)
                ELSE CHOOSE i \in denying : \A j \in denying : i <= j
    IN  [i \in 1..last |-> [validator |-> chain[i], verdict |-> verdicts[i]]]

\* a request for a route with an access validation: the access chain, then
\* the path validation, then the handler
dispatch(route, verdicts, path_allowed) ==
    LET options == server_routes[route].options
        called == run_chain(options["access_validation"], verdicts)
        denied == called # <<>> /\ called[Len(called)].verdict \in Denials
        has_path == "path_validation" \in DOMAIN options
        path_denied == ~denied /\ has_path /\ ~path_allowed
    IN  [seen |-> TRUE,
         route |-> route,
         access_called |-> called,
         path_called |-> ~denied /\ has_path,
         handler_called |-> ~denied /\ ~path_denied,
         status |-> IF denied THEN called[Len(called)].verdict
                    ELSE IF path_denied THEN options["path_validation"].status_code
                    ELSE "200",
         path |-> NoPath]

\* a request reaches a route of the assembled table that carries an access
\* validation
request ==
    /\ rt_pc = "assembled"
    /\ ~last_request.seen
    /\ \E route \in 1..Len(server_routes) :
          /\ "access_validation" \in DOMAIN server_routes[route].options
          /\ \E verdicts \in [1..Len(server_routes[route].options["access_validation"])
                                -> {"allow"} \cup Denials],
                path_allowed \in BOOLEAN :
                last_request' = dispatch(route, verdicts, path_allowed)
    /\ UNCHANGED <<notRoutes, rt_pc, access_validators_from_plugins, server_routes, rt_hook,
                   bsVars>>

\* a request the access validation lets through reaches a route with a
\* path validation: the predicate is called with the path asked for
request_path ==
    /\ rt_pc = "assembled"
    /\ ~last_request.seen
    /\ \E route \in 1..Len(server_routes), path \in Paths :
          LET options == server_routes[route].options
          IN  /\ "access_validation" \in DOMAIN options
              /\ "path_validation" \in DOMAIN options
              /\ last_request' =
                    [dispatch(route,
                              [i \in 1..Len(options["access_validation"]) |-> "allow"],
                              path_predicate(options["path_validation"].predicate, path))
                        EXCEPT !.path = path]
    /\ UNCHANGED <<notRoutes, rt_pc, access_validators_from_plugins, server_routes, rt_hook,
                   bsVars>>

\* the response is sent, the server takes the next request
request_finish ==
    /\ last_request.seen
    /\ last_request' = NoRequest
    /\ UNCHANGED <<notRoutes, rt_pc, access_validators_from_plugins, server_routes, rt_hook,
                   bsVars>>

RoutesInit ==
    /\ rt_pc = "validators"
    /\ access_validators_from_plugins = <<>>
    /\ server_routes = <<>>
    /\ rt_hook = 1
    /\ bs_pc = "waiting"
    /\ max_body_sizes = <<>>
    /\ bs_hook = 1
    /\ last_request = NoRequest

BodySizeNext ==
    \/ get_max_body_sizes_enter
    \/ get_max_body_sizes_hook
    \/ get_max_body_sizes_return

RoutesNext ==
    \/ get_server_handlers_access_validators
    \/ get_server_handlers_server_routes
    \/ get_server_handlers_plugin_routes
    \/ get_server_handlers_fallback
    \/ request
    \/ request_path
    \/ request_finish

\* the two assemblies, each from the server as constructed: neither reads
\* what the other builds
ContributionsNext ==
    \/ bs_pc = "waiting" /\ get_server_handlers_access_validators
    \/ bs_pc = "waiting" /\ get_server_handlers_server_routes
    \/ bs_pc = "waiting" /\ get_server_handlers_plugin_routes
    \/ bs_pc = "waiting" /\ get_server_handlers_fallback
    \/ rt_pc = "validators" /\ get_max_body_sizes_enter
    \/ rt_pc = "validators" /\ get_max_body_sizes_hook
    \/ rt_pc = "validators" /\ get_max_body_sizes_return

\* ------------------------------ _execute_preemptive_flask_caching, a pass

\* a string the code takes apart is the sequence of its characters
\* str.startswith
startswith(str, prefix) ==
    Len(prefix) <= Len(str) /\ SubSeq(str, 1, Len(prefix)) = prefix

\* str.count("/")
RECURSIVE count_slashes(_)
count_slashes(str) ==
    IF str = <<>> THEN 0
    ELSE (IF Head(str) = "/" THEN 1 ELSE 0) + count_slashes(Tail(str))

\* the code points of the characters of the routes
ord(char) == CASE char = "/" -> 47 [] char = "a" -> 97 [] char = "b" -> 98

\* str < str, by code points
RECURSIVE str_less(_, _)
str_less(x, y) ==
    IF y = <<>> THEN FALSE
    ELSE IF x = <<>> THEN TRUE
    ELSE IF Head(x) # Head(y) THEN ord(Head(x)) < ord(Head(y))
    ELSE str_less(Tail(x), Tail(y))

\* time.time() - preemptive_cache_timeout * 24 * 60 * 60, in days since
\* some day
cutoff_timestamp == 10

\* a value of a dict that may lack the key
Missing == [present |-> FALSE, value |-> 0]
Value(v) == [present |-> TRUE, value |-> v]
MissingStr == [present |-> FALSE, value |-> <<>>]

HttpUrl == <<"h", "t", "t", "p", ":", "/", "/", "x">>
HttpsUrl == <<"h", "t", "t", "p", "s", ":", "/", "/", "x">>
FtpUrl == <<"f", "t", "p", ":", "/", "/", "x">>

CacheEntry(timestamp, base_url, count, plugin) ==
    [timestamp |-> timestamp, base_url |-> base_url, count |-> count, plugin |-> plugin]

\* the entries of the preemptive cache: young ones for http(s) with their
\* counts and plugins, and ones the filters have a reason to drop
CacheEntries ==
    {CacheEntry(Value(11), Value(HttpUrl), Value(5), "none"),
     CacheEntry(Value(11), Value(HttpsUrl), Value(50), "none"),
     CacheEntry(Value(12), Value(HttpUrl), Missing, "ui"),
     CacheEntry(Missing, Value(HttpUrl), Missing, "none"),
     CacheEntry(Value(9), Value(HttpUrl), Missing, "none"),
     CacheEntry(Value(10), Value(HttpsUrl), Missing, "none"),
     CacheEntry(Value(11), MissingStr, Missing, "none"),
     CacheEntry(Value(11), Value(<<>>), Missing, "none"),
     CacheEntry(Value(11), Value(FtpUrl), Missing, "none"),
     CacheEntry(Value(9), Value(FtpUrl), Missing, "none")}

\* the routes of the preemptive cache: "/a", "/b", "/a/b"
CacheRoutes == {<<"/", "a">>, <<"/", "b">>, <<"/", "a", "/", "b">>}

\* mutant: an entry as old as the cutoff is kept
filter_current_entries_not_older(entry) ==
    entry.timestamp.present /\ entry.timestamp.value >= cutoff_timestamp

\* filter_current_entries
filter_current_entries(entry) ==
    entry.timestamp.present /\ entry.timestamp.value > cutoff_timestamp

\* filter_http_entries
filter_http_entries(entry) ==
    /\ entry.base_url.present
    /\ entry.base_url.value # <<>>
    /\ \/ startswith(entry.base_url.value, <<"h", "t", "t", "p", ":", "/", "/">>)
       \/ startswith(entry.base_url.value, <<"h", "t", "t", "p", "s", ":", "/", "/">>)

\* filter_entries
filter_entries(entry) == filter_current_entries(entry) /\ filter_http_entries(entry)

\* mutant: the routes are ordered as strings only
route_key_less_lexicographic(x, y) == str_less(x, y)

\* key=lambda x: (x.count("/"), x), compared as tuples
route_key_less(x, y) ==
    \/ count_slashes(x) < count_slashes(y)
    \/ count_slashes(x) = count_slashes(y) /\ str_less(x, y)

\* sorted(cache_data.keys(), key=...)
RECURSIVE sorted_routes(_)
sorted_routes(routes) ==
    IF routes = {} THEN <<>>
    ELSE LET first == CHOOSE x \in routes :
                         \A y \in routes \ {x} : route_key_less(x, y)
         IN  <<first>> \o sorted_routes(routes \ {first})

\* key=lambda x: x.get("_count", 0)
count_key(entry) == IF entry.count.present THEN entry.count.value ELSE 0

\* sorted(entries, key=..., reverse=True): a stable sort, entries of equal
\* count keep their order
RECURSIVE sorted_entries(_)
sorted_entries(entries) ==
    IF entries = <<>> THEN <<>>
    ELSE LET first == CHOOSE i \in 1..Len(entries) :
                         /\ \A j \in 1..Len(entries) :
                               count_key(entries[j]) <= count_key(entries[i])
                         /\ \A j \in 1..(i - 1) :
                               count_key(entries[j]) < count_key(entries[i])
         IN  <<entries[first]>>
                 \o sorted_entries(SubSeq(entries, 1, first - 1)
                                      \o SubSeq(entries, first + 1, Len(entries)))

\* the keys of cache_data
cache_data_keys(data) == {route \in CacheRoutes : data[route] # <<>>}

\* the entries of all routes of cache_data
RECURSIVE cache_data_size(_, _)
cache_data_size(data, routes) ==
    IF routes = {} THEN 0
    ELSE LET route == CHOOSE x \in routes : TRUE
         IN  Len(data[route]) + cache_data_size(data, routes \ {route})

\* the two for loops of execute_caching, as the list of what they visit
RECURSIVE replay_order(_, _)
replay_order(data, routes) ==
    IF routes = <<>> THEN <<>>
    ELSE LET entries == sorted_entries(data[Head(routes)])
         IN  [i \in 1..Len(entries) |-> [route |-> Head(routes), entry |-> entries[i]]]
                 \o replay_order(data, Tail(routes))

\* the way of a request of a client: the tornado application matches the
\* route table, runs the access and the path validation of the entry and
\* resolves the body size before the entry's handler (for the catch-all
\* entry the WSGI container in front of the Flask app) is called
real_dispatch_path ==
    <<"route_table", "access_validation", "path_validation", "max_body_size",
      "handler", "app.full_dispatch_request">>

\* the way of a replayed request: app.request_context(environ) and
\* app.full_dispatch_request()
replay_dispatch_path == <<"app.full_dispatch_request">>

NotExamined ==
    [seen |-> FALSE, entry |-> CacheEntry(Missing, MissingStr, Missing, "none"),
     kept |-> FALSE]

\* clean_all_data calls the filter with the entries of a route, one at a
\* time, and keeps those it returns True for
clean_all_data_entry ==
    /\ rp_pc = "filter"
    /\ cache_data_size(rp_cache_data, CacheRoutes) < MaxCacheEntries
    /\ \E route \in CacheRoutes, entry \in CacheEntries :
          LET kept == filter_entries(entry)
          IN  /\ rp_examined' = [seen |-> TRUE, entry |-> entry, kept |-> kept]
              /\ rp_cache_data' =
                    IF kept
                    THEN [rp_cache_data EXCEPT ![route] = Append(@, entry)]
                    ELSE rp_cache_data
    /\ UNCHANGED <<notReplay, rp_pc, rp_batch, rp_index, rp_log>>

\* clean_all_data has returned: without data the pass returns, else the
\* worker starts with the routes and their entries sorted
execute_caching_start ==
    /\ rp_pc = "filter"
    /\ IF cache_data_keys(rp_cache_data) = {}
       THEN /\ rp_pc' = "done"
            /\ rp_batch' = <<>>
       ELSE /\ rp_pc' = "replay"
            /\ rp_batch' = replay_order(rp_cache_data,
                                        sorted_routes(cache_data_keys(rp_cache_data)))
    /\ rp_index' = 1
    /\ rp_log' = <<>>
    /\ UNCHANGED <<notReplay, rp_examined, rp_cache_data>>

\* what the checks of an entry with a plugin come to
PluginChecks == {"not_installed", "not_a_UiPlugin", "opted_out", "raised", "passed"}

\* mutant: an entry that is not dispatched ends the loops
execute_caching_entry_stops_at_failure ==
    /\ rp_pc = "replay"
    /\ rp_index <= Len(rp_batch)
    /\ LET entry == rp_batch[rp_index].entry
       IN  \E check \in PluginChecks, raises \in BOOLEAN :
              /\ entry.plugin = "none" => check = "passed"
              /\ check # "passed" => ~raises
              /\ rp_log' = Append(rp_log,
                     [index |-> rp_index,
                      check |-> check,
                      dispatched |-> check = "passed",
                      path |-> IF check = "passed" THEN replay_dispatch_path ELSE <<>>,
                      raised |-> raises])
              /\ rp_pc' = IF check = "passed" /\ ~raises THEN rp_pc ELSE "done"
    /\ rp_index' = rp_index + 1
    /\ UNCHANGED <<notReplay, rp_examined, rp_cache_data, rp_batch>>

\* execute_caching, one round of the inner loop: the checks of the entry's
\* plugin (continue unless all pass), then the request is built and
\* dispatched inside try/except Exception
execute_caching_entry ==
    /\ rp_pc = "replay"
    /\ rp_index <= Len(rp_batch)
    /\ LET entry == rp_batch[rp_index].entry
       IN  \E check \in PluginChecks, raises \in BOOLEAN :
              /\ entry.plugin = "none" => check = "passed"
              /\ check # "passed" => ~raises
              /\ rp_log' = Append(rp_log,
                     [index |-> rp_index,
                      check |-> check,
                      dispatched |-> check = "passed",
                      path |-> IF check = "passed" THEN replay_dispatch_path ELSE <<>>,
                      raised |-> raises])
    /\ rp_index' = rp_index + 1
    /\ UNCHANGED <<notReplay, rp_pc, rp_examined, rp_cache_data, rp_batch>>

\* the loops are exhausted, execute_caching returns
execute_caching_end ==
    /\ rp_pc = "replay"
    /\ rp_index > Len(rp_batch)
    /\ rp_pc' = "done"
    /\ UNCHANGED <<notReplay, rp_examined, rp_cache_data, rp_batch, rp_index, rp_log>>

ReplayInit ==
    /\ rp_pc = "filter"
    /\ rp_examined = NotExamined
    /\ rp_cache_data = [route \in CacheRoutes |-> <<>>]
    /\ rp_batch = <<>>
    /\ rp_index = 1
    /\ rp_log = <<>>

ReplayNext ==
    \/ clean_all_data_entry
    \/ execute_caching_start
    \/ execute_caching_entry
    \/ execute_caching_end

\* ------------------------------------------- the .incomplete_startup flag

NoRun == [ended |-> "none", ignore |-> FALSE, touched |-> FALSE]

\* the run is over: the process is gone, the file stays as it is
flag_run_ends(ended) ==
    /\ flag_pc' = "stopped"
    /\ flag_last' = [ended |-> ended, ignore |-> ignoreIncompleteStartup,
                     touched |-> flag_touched]
    /\ flag_touched' = FALSE

\* Server.run, its first statements: unless the setting says otherwise the
\* flag is touched, and an exception of touch() is logged
run_touch_flag ==
    /\ flag_pc = "stopped"
    /\ flag_starts < MaxStarts
    /\ flag_starts' = flag_starts + 1
    /\ \E ignore \in BOOLEAN, touch_raises \in BOOLEAN :
          /\ ignore => ~touch_raises
          /\ ignoreIncompleteStartup' = ignore
          /\ flag_touched' = (~ignore /\ ~touch_raises)
          /\ incomplete_startup_flag' =
                IF ~ignore /\ ~touch_raises THEN TRUE ELSE incomplete_startup_flag
    /\ flag_pc' = "run"
    /\ UNCHANGED <<notFlag, flag_last>>

\* the run goes on: the plugins are started, then the server is bound and
\* the callback of _trigger_after_startup is queued
run_startup_step ==
    /\ flag_pc \in {"run", "plugins"}
    /\ flag_pc' = IF flag_pc = "run" THEN "plugins" ELSE "bound"
    /\ UNCHANGED <<notFlag, incomplete_startup_flag, ignoreIncompleteStartup, flag_touched,
                   flag_last, flag_starts>>

\* the process ends before work() is through with the flag: run() raises,
\* or a step or a plugin hangs and the process is killed
run_aborts ==
    /\ flag_pc \in {"run", "plugins", "bound", "after_startup", "clearing"}
    /\ flag_run_ends(IF flag_pc = "clearing" THEN "after_plugins" ELSE "aborted")
    /\ UNCHANGED <<notFlag, incomplete_startup_flag, ignoreIncompleteStartup, flag_starts>>

\* mutant: work() clears the flag before it calls the plugins
work_clears_flag_first ==
    /\ flag_pc = "bound"
    /\ flag_pc' = "after_startup"
    /\ incomplete_startup_flag' = FALSE
    /\ UNCHANGED <<notFlag, ignoreIncompleteStartup, flag_touched, flag_last, flag_starts>>

\* work() is started and calls _call_afterstartup_plugins
work_call_afterstartup_plugins ==
    /\ flag_pc = "bound"
    /\ flag_pc' = "after_startup"
    /\ UNCHANGED <<notFlag, incomplete_startup_flag, ignoreIncompleteStartup, flag_touched,
                   flag_last, flag_starts>>

\* _call_afterstartup_plugins returns (a plugin that hangs keeps it from
\* returning, the run then stays where it is)
call_afterstartup_plugins_return ==
    /\ flag_pc = "after_startup"
    /\ flag_pc' = "clearing"
    /\ UNCHANGED <<notFlag, incomplete_startup_flag, ignoreIncompleteStartup, flag_touched,
                   flag_last, flag_starts>>

\* work(): the flag is unlinked if it exists, an exception is logged
work_clear_flag ==
    /\ flag_pc = "clearing"
    /\ \E unlink_raises \in BOOLEAN :
          /\ unlink_raises => incomplete_startup_flag
          /\ incomplete_startup_flag' =
                IF incomplete_startup_flag /\ ~unlink_raises THEN FALSE
                ELSE incomplete_startup_flag
    /\ flag_pc' = "started"
    /\ UNCHANGED <<notFlag, ignoreIncompleteStartup, flag_touched, flag_last, flag_starts>>

\* the server that came up is shut down
server_exits ==
    /\ flag_pc = "started"
    /\ flag_run_ends("completed")
    /\ UNCHANGED <<notFlag, incomplete_startup_flag, ignoreIncompleteStartup, flag_starts>>

\* before the first start of the model: no run yet; the new variables of
\* the flag are drawn by the first actions
FlagInit ==
    /\ flag_pc = "stopped"
    /\ incomplete_startup_flag = FALSE
    /\ ignoreIncompleteStartup = FALSE
    /\ flag_touched = FALSE
    /\ flag_last = NoRun
    /\ flag_starts = 0

FlagNext ==
    \/ run_touch_flag
    \/ run_startup_step
    \/ run_aborts
    \/ work_call_afterstartup_plugins
    \/ call_afterstartup_plugins_return
    \/ work_clear_flag
    \/ server_exits

\* ------------------------------------------------ _setup_plugin_permissions

\* permission_key: "PLUGIN_{}_{}" of the plugin and the key in upper case;
\* a key is the sequence of its parts
permission_key(plugin, key) == <<"PLUGIN", plugin, key>>

\* a permission of the core, which Permissions.find finds from the start
CorePermissions == {<<"SETTINGS">>}

\* a permission definition of a plugin: its key and the keys of its
\* "permissions" list
Definition(plugin, key, permissions) ==
    [plugin |-> plugin, key |-> key, permissions |-> permissions]

\* definitions without references, in a chain, in cycles of one, two and
\* three, with a key no one defines and with a permission of the core
PermissionDefinitions ==
    {Definition("P", "X", <<>>),
     Definition("Q", "Y", <<permission_key("P", "X")>>),
     Definition("P", "Z", <<permission_key("Q", "Y")>>),
     Definition("P", "X", <<permission_key("P", "Z")>>),
     Definition("Q", "Y", <<permission_key("Q", "NOPE")>>),
     Definition("P", "Z", <<permission_key("P", "X"), permission_key("Q", "Y")>>),
     Definition("Q", "Y", <<permission_key("Q", "Y")>>),
     Definition("P", "Z", <<<<"SETTINGS">>, permission_key("P", "X")>>)}

\* Permissions.find(key) is not None
permission_found(registered, key) == key \in registered \cup CorePermissions

\* process_regular_permission: False at the first key that is not found,
\* else the permission is set on Permissions and the result is True
process_regular_permission(registered, definition) ==
    LET resolved == \A i \in 1..Len(definition.permissions) :
                       permission_found(registered, definition.permissions[i])
    IN  [result |-> resolved,
         registered |-> IF resolved
                        THEN registered \cup {permission_key(definition.plugin, definition.key)}
                        ELSE registered]

\* _setup_plugin_permissions is called with what the hooks hold
setup_plugin_permissions ==
    /\ perm_pc = "idle"
    /\ \E definitions \in SeqsUpTo(PermissionDefinitions, MaxDefinitions) :
          perm_definitions' = definitions
    /\ perm_pc' = "hooks"
    /\ UNCHANGED <<notPermissions, perm_index, perm_registered, perm_processed,
                   perm_postponed, postponed, still_postponed, pass_number>>

\* the loop over the hooks and their definitions: a definition is
\* registered or postponed
setup_plugin_permissions_hooks ==
    /\ perm_pc = "hooks"
    /\ perm_index <= Len(perm_definitions)
    /\ LET processed == process_regular_permission(perm_registered,
                                                   perm_definitions[perm_index])
       IN  /\ perm_registered' = processed.registered
           /\ perm_processed' = IF processed.result
                                 THEN perm_processed \cup {perm_index}
                                 ELSE perm_processed
           /\ postponed' = IF processed.result THEN postponed
                            ELSE Append(postponed, perm_index)
           /\ perm_postponed' = IF processed.result THEN perm_postponed
                                 ELSE perm_postponed \cup {perm_index}
    /\ perm_index' = perm_index + 1
    /\ UNCHANGED <<notPermissions, perm_pc, perm_definitions, still_postponed, pass_number>>

\* pass_number = 1, still_postponed = []
setup_plugin_permissions_passes ==
    /\ perm_pc = "hooks"
    /\ perm_index > Len(perm_definitions)
    /\ pass_number' = 1
    /\ still_postponed' = <<>>
    /\ perm_pc' = "while"
    /\ UNCHANGED <<notPermissions, perm_definitions, perm_index, perm_registered,
                   perm_processed, perm_postponed, postponed>>

\* while len(postponed): the next pass begins, or the loop is left
resolution_pass_begin ==
    /\ perm_pc = "while"
    /\ perm_pc' = IF Len(postponed) > 0 THEN "for" ELSE "done"
    /\ perm_index' = 1
    /\ UNCHANGED <<notPermissions, perm_definitions, perm_registered, perm_processed,
                   perm_postponed, postponed, still_postponed, pass_number>>

\* for plugin_info, definition in postponed: one round
resolution_pass_entry ==
    /\ perm_pc = "for"
    /\ perm_index <= Len(postponed)
    /\ LET processed == process_regular_permission(perm_registered,
                                                   perm_definitions[postponed[perm_index]])
       IN  /\ perm_registered' = processed.registered
           /\ perm_processed' = IF processed.result
                                 THEN perm_processed \cup {postponed[perm_index]}
                                 ELSE perm_processed
           /\ still_postponed' = IF processed.result THEN still_postponed
                                  ELSE Append(still_postponed, postponed[perm_index])
    /\ perm_index' = perm_index + 1
    /\ UNCHANGED <<notPermissions, perm_pc, perm_definitions, perm_postponed, postponed,
                   pass_number>>

\* mutant: the loop is left after any pass that leaves something postponed
resolution_pass_end_single_pass ==
    /\ perm_pc = "for"
    /\ perm_index > Len(postponed)
    /\ IF Len(still_postponed) > 0
       THEN /\ perm_pc' = "done"
            /\ UNCHANGED <<postponed, still_postponed, pass_number>>
       ELSE /\ postponed' = still_postponed
            /\ still_postponed' = <<>>
            /\ pass_number' = pass_number + 1
            /\ perm_pc' = "while"
    /\ UNCHANGED <<notPermissions, perm_definitions, perm_index, perm_registered,
                   perm_processed, perm_postponed>>

\* the pass is over: break if it resolved nothing, else the next pass
\* gets what is left
resolution_pass_end ==
    /\ perm_pc = "for"
    /\ perm_index > Len(postponed)
    /\ IF Len(still_postponed) = Len(postponed)
       THEN /\ perm_pc' = "done"
            /\ UNCHANGED <<postponed, still_postponed, pass_number>>
       ELSE /\ postponed' = still_postponed
            /\ still_postponed' = <<>>
            /\ pass_number' = pass_number + 1
            /\ perm_pc' = "while"
    /\ UNCHANGED <<notPermissions, perm_definitions, perm_index, perm_registered,
                   perm_processed, perm_postponed>>

PermissionsInit ==
    /\ perm_pc = "idle"
    /\ perm_definitions = <<>>
    /\ perm_index = 1
    /\ perm_registered = {}
    /\ perm_processed = {}
    /\ perm_postponed = {}
    /\ postponed = <<>>
    /\ still_postponed = <<>>
    /\ pass_number = 1

PermissionsNext ==
    \/ setup_plugin_permissions
    \/ setup_plugin_permissions_hooks
    \/ setup_plugin_permissions_passes
    \/ resolution_pass_begin
    \/ resolution_pass_entry
    \/ resolution_pass_end

\* ------------------------------------------------------- specifications

Init == ServerInit /\ LifecycleInit /\ RoutesInit /\ ReplayInit /\ FlagInit /\ PermissionsInit

\* Server.run and the shutdown routine
Next == ServerNext

Spec == Init /\ [][Next]_vars

\* the routine's own steps and the observer thread are scheduled; nothing
\* makes a stuck thread or a stuck plugin return
FairSpec == Spec /\ WF_vars(on_shutdown) /\ WF_vars(observer_thread)

\* the LifecycleManager, of a server in one configuration whose run() has
\* not started
LifecycleStart ==
    Init /\ has_v6 /\ ~v6_only /\ host = "None" /\ port = 0 /\ ~has_daemon

LifecycleSpec == LifecycleStart /\ [][LifecycleNext]_vars

\* the assembly of the route table and the requests to it, in the same server
RoutesStart ==
    Init /\ has_v6 /\ ~v6_only /\ host = "None" /\ port = 0 /\ ~has_daemon

RoutesSpec == RoutesStart /\ [][RoutesNext]_vars

\* the assembly of the body size list, in the same server
BodySizeStart ==
    Init /\ has_v6 /\ ~v6_only /\ host = "None" /\ port = 0 /\ ~has_daemon

BodySizeSpec == BodySizeStart /\ [][BodySizeNext]_vars

\* the contributions of the plugin hooks to the route table and to the body
\* size list, in the same server
ContributionsStart ==
    Init /\ has_v6 /\ ~v6_only /\ host = "None" /\ port = 0 /\ ~has_daemon

ContributionsSpec == ContributionsStart /\ [][ContributionsNext]_vars

\* the starts of the server and the flag, in the same server
FlagStart ==
    Init /\ has_v6 /\ ~v6_only /\ host = "None" /\ port = 0 /\ ~has_daemon

FlagSpec == FlagStart /\ [][FlagNext]_vars

\* the permissions of the plugins are set up, in the same server; the
\* function is one loop in one thread, which goes on until it returns
PermissionsStart ==
    Init /\ has_v6 /\ ~v6_only /\ host = "None" /\ port = 0 /\ ~has_daemon

PermissionsSpec ==
    PermissionsStart /\ [][PermissionsNext]_vars /\ WF_vars(PermissionsNext)

\* one pass of the preemptive cache replay, in the same server
ReplayStart ==
    Init /\ has_v6 /\ ~v6_only /\ host = "None" /\ port = 0 /\ ~has_daemon

ReplaySpec == ReplayStart /\ [][ReplayNext]_vars

\* ------------------------------------------------- properties of the server

\* the intermediary server has bound the port and the process is alive
Claimed == isock \in {"bound", "closed"} /\ pc \notin Terminal

\* C1: the full server binds only after _stop_intermediary_server has
\* returned: whenever run() is at the full server's listen, or the full
\* server is listening, the serve loop of the intermediary server has
\* stopped on request and its socket is closed.
C1_BindAfterStop ==
    (pc = "listen" \/ fsock = "listening")
        => (shutdown_request /\ serve = "stopped" /\ isock = "closed")

C1_Witness == fsock = "listening" /\ isock = "closed" /\ pc = "startup"

\* C2 as stated: from the intermediary bind until the process ends the
\* port has exactly one owner among {intermediary server, full server}.
C2_ExactlyOneOwner == Claimed => Cardinality(Owners) = 1

\* C2, amended: the port never has two owners, and from the intermediary
\* bind until the process ends it has no owner exactly while run() is
\* between the server_close() of _stop_intermediary_server and the return
\* of the full server's listen; in every other such state it has one.
C2_StopThenBind ==
    /\ Cardinality(Owners) <= 1
    /\ Claimed => (Owners = {} <=> pc = "listen")

C2_Witness == pc = "listen" /\ isock = "closed" /\ Owners = {}

\* C4: two runs of the shutdown routine stop and join the observer once
\* and fire SHUTDOWN once.
C4_ShutdownOnce == n_stop <= 1 /\ n_join <= 1 /\ n_fired <= 1

\* C5: once started, the shutdown routine runs to completion.
C5_ShutdownCompletes == (sd_pc \notin {"idle", "done"}) ~> (sd_pc = "done")

\* C8 as stated: the intermediary socket is bound only with the
\* close-on-exec flag set.
C8_BoundWithCloseExec == isock = "bound" => cloexec

\* C8, amended: set_close_exec has been called on the socket before every
\* server_bind; a failure of the call is only logged, so the socket is
\* bound with the flag iff the call set it, and only a socket bound without
\* the flag is inherited by a subprocess.
C8_CloseExecAttempted ==
    /\ (pc = "server_bind" \/ isock = "bound") => cloexec_result \in CloseExecOutcomes
    /\ child_holds => ~cloexec

C8_Witness == isock = "bound" /\ cloexec_result = "raised" /\ child_holds

\* the order of the calls of one run of on_shutdown, for the server at hand
ShutdownOrder ==
    (IF observer # "none" THEN <<"observer.stop", "observer.join">> ELSE <<>>)
        \o <<"fire", "call_shutdown_plugins", "eventManager.join">>
        \o (IF has_daemon THEN <<"daemon.terminated">> ELSE <<>>)

IsPrefix(a, b) == Len(a) <= Len(b) /\ SubSeq(b, 1, Len(a)) = a

FiredInThisRun == \E i \in 1..Len(sd_steps) : sd_steps[i] = "fire"

\* C11: the calls of one run of the shutdown routine are made in the order
\* observer.stop(), observer.join(), fire(SHUTDOWN), the shutdown plugins,
\* eventManager.join(timeout), daemon.terminated(); SHUTDOWN is fired only
\* with the observer thread terminated (or no observer), and a finished
\* run has made all of them.
C11_ShutdownOrder ==
    /\ IsPrefix(sd_steps, ShutdownOrder)
    /\ FiredInThisRun => observer \in {"none", "terminated"}
    /\ (sd_pc = "done" /\ shutdown_runs > 0) => sd_steps = ShutdownOrder

C11_Witness == sd_pc = "done" /\ Len(sd_steps) = 6 /\ observer = "terminated"

\* C12: the IOLoop is stopped only after a run of the shutdown routine has
\* fired SHUTDOWN, waited for the event consumers and notified the daemon.
C12_LoopStoppedLast ==
    pc \in {"run_returned", "exited"}
        => /\ shutdown_runs >= 1
           /\ n_fired >= 1
           /\ shutdown_runs = 1 => sd_pc = "done"

\* C13: a step of the installed SIGTERM handler appends shutdown_tornado to
\* the callbacks of the IOLoop and changes nothing else of the server; the
\* loop is stopped only by the IOLoop running that callback.
C13_HandlerOnlySchedules ==
    [][/\ (signals' # signals /\ sigterm_installed)
            => /\ ioloop_queue' = Append(ioloop_queue, "shutdown_tornado")
               /\ UNCHANGED <<runVars, sockVars, sigterm_installed, atexit_registered,
                              shutVars, startVars>>
       /\ (pc = "ioloop" /\ pc' = "run_returned")
            => /\ ioloop_queue # <<>>
               /\ Head(ioloop_queue) = "shutdown_tornado"
               /\ ioloop_queue' = Tail(ioloop_queue)
               /\ signals' = signals]_vars

C13_Witness ==
    /\ signals = 1
    /\ pc = "ioloop"
    /\ ioloop_queue # <<>>
    /\ ioloop_queue[Len(ioloop_queue)] = "shutdown_tornado"
    /\ sd_pc = "idle"

\* C14: no SIGTERM ends the process while the full server is listening.
C14_NoKillAfterBind == ~(pc = "killed" /\ fsock = "closed")

\* C15: an aborted run() holds no socket: the intermediary socket is closed
\* or was never created and the full server does not listen; a
\* configuration that asks for IPv6 on a platform without it never gets
\* past the network setup and never creates a socket.
C15_AbortHoldsNoSocket ==
    /\ pc = "aborted"
          => /\ Owners = {}
             /\ isock \in {"none", "closed"}
             /\ fsock = "none"
    /\ (~has_v6 /\ (v6_only \/ HasColon(host)))
          => /\ pc \in {"run_start", "aborted", "killed"}
             /\ isock = "none"

C15_Witness ==
    /\ pc = "aborted"
    /\ isock = "closed"
    /\ serve = "none"
    /\ other_holds
    /\ cloexec_result # "pending"

\* C16: the intermediary server binds the port and the IP stack that host,
\* port and v6_only denote ('::' without v6_only: v4 and v6; another
\* address with ':' or '::' with v6_only: v6 only; else v4 on the host),
\* and the full server listens on the same port and the same endpoints.
C16_SameAddress ==
    /\ iaddr # NoAddress
          => /\ iaddr.port = port
             /\ iaddr.endpoints =
                    IF host = "::" /\ ~v6_only THEN AllV4AndV6
                    ELSE IF HasColon(host) THEN {<<"v6", host>>}
                    ELSE {<<"v4", host>>}
    /\ faddr # NoAddress => faddr = iaddr
    /\ fsock # "none" => faddr # NoAddress

C16_Witness ==
    /\ fsock = "listening"
    /\ faddr.endpoints = AllV4AndV6
    /\ faddr.port = DefaultPort
    /\ isock = "closed"

InvokedCallbacks == [i \in 1..Len(lm_invoked) |-> lm_invoked[i].callback]

DispatchOver == lm_pc \in {"returned", "raised"}

\* C3: a callback that raises does not keep the callbacks registered after
\* it from being called, and its exception does not reach the caller of
\* on_plugin_event.
C3_FailureIsolated ==
    (DispatchOver /\ \E i \in 1..Len(lm_invoked) : lm_invoked[i].raised)
        => (lm_pc = "returned" /\ InvokedCallbacks = lm_callbacks[lm_event])

\* C9: a notification of the plugin manager runs the plugin manager's own
\* handler first and is then dispatched by the LifecycleManager for the
\* same event and name.
C9_NotificationForwarded ==
    pm_last.seen
        => /\ pm_last.orig
           /\ pm_last.forwarded
           /\ lm_pc \in {"dispatch", "returned", "raised"}
           /\ lm_event = pm_last.event
           /\ lm_name = pm_last.name

\* C10: a dispatch calls exactly the callbacks registered for its event, in
\* the order of their registration, once per registration.
C10_RegistrationOrder == DispatchOver => InvokedCallbacks = lm_callbacks[lm_event]

\* C19: after remove_callback(cb) with events=None no event holds cb, and
\* no dispatch that follows calls cb.
C19_RemovedEverywhere ==
    lm_removed # "none"
        => /\ \A e \in PluginEvents : ~Contains(lm_callbacks[e], lm_removed)
           /\ \A i \in 1..Len(lm_invoked) : lm_invoked[i].callback # lm_removed

\* the calls of the last dispatch that changed the list, and what they
\* removed
Mutators == {lm_invoked[i].callback : i \in {j \in 1..Len(lm_invoked) :
                                                 lm_invoked[j].effect.op # "none"}}
RemovedInDispatch ==
    {lm_invoked[i].effect.callback : i \in {j \in 1..Len(lm_invoked) :
                                               lm_invoked[j].effect.op = "remove"}}

\* C27: in a dispatch that returned and in which callbacks changed the list
\* of the event, every other callback that was in the list when the
\* dispatch began and was not removed has been called exactly once.
C27_MutationDuringDispatch ==
    (lm_pc = "returned" /\ Mutators # {})
        => \A callback \in (Range(lm_start) \ Mutators) \ RemovedInDispatch :
              Cardinality({i \in 1..Len(lm_invoked) :
                              lm_invoked[i].callback = callback}) = 1

\* ---------------------------------------------- properties of the routes

IsDownloadRoute(entry) ==
    Len(entry.pattern) >= 2 /\ SubSeq(entry.pattern, 1, 2) = <<"/", "downloads">>

\* position of a plugin among the access validator hooks
HookPosition(plugin) == CHOOSE i \in 1..Len(AccessPlugins) : AccessPlugins[i] = plugin

IsPluginRoute(entry, name) ==
    Len(entry.pattern) >= 5
        /\ SubSeq(entry.pattern, 1, 5) = <<"/", "plugin", "/", name, "/">>

\* C17: the assembled route table is the built-in routes, then the routes
\* of the plugin hooks, then the catch-all route '.*' as its last entry and
\* nowhere else; no table under assembly holds the catch-all route.
C17_CatchAllLast ==
    LET n == Len(server_routes)
        builtin == builtin_routes(access_validators_from_plugins)
    IN  /\ rt_pc = "assembled"
              => /\ n > Len(builtin)
                 /\ server_routes[n] = fallback_route
                 /\ \A i \in 1..Len(builtin) :
                       /\ server_routes[i].pattern = builtin[i].pattern
                       /\ server_routes[i].handler = builtin[i].handler
                 /\ \A i \in (Len(builtin) + 1)..(n - 1) :
                       \E name \in Range(RoutePlugins) : IsPluginRoute(server_routes[i], name)
                 /\ \A i \in 1..(n - 1) : server_routes[i].pattern # <<".*">>
        /\ rt_pc # "assembled"
              => \A i \in 1..n : server_routes[i].pattern # <<".*">>

C17_Witness ==
    /\ rt_pc = "assembled"
    /\ server_routes[Len(server_routes)].pattern = <<".*">>
    /\ \E i \in 1..Len(server_routes) : IsPluginRoute(server_routes[i], "p1")
    /\ \E i \in 1..Len(server_routes) : IsPluginRoute(server_routes[i], "p2")

\* C18: the assembly of the body size list never aborts.
C18_AssemblyNeverAborts == bs_pc # "aborted"

\* C7: no two entries of the route table have the same pattern.
C7_UniquePatterns ==
    \A i, j \in 1..Len(server_routes) :
        server_routes[i].pattern = server_routes[j].pattern => i = j

FilesLocalPattern == <<"/", "downloads", "/", "files", "/", "local", "/", "(.*)">>

\* C25: a request for /downloads/files/local/(.*) reaches the handler only
\* with a path that is not hidden and has a known file type, and a path the
\* handler is not called for is answered with 404.
C25_EveryPathValidator ==
    (/\ last_request.seen
     /\ last_request.path.given
     /\ server_routes[last_request.route].pattern = FilesLocalPattern)
        => /\ last_request.handler_called
                => (~last_request.path.hidden /\ last_request.path.known_type)
           /\ ~last_request.handler_called => last_request.status = "404"

\* C26: whatever the hooks do, the table under assembly and the assembled
\* table begin with the built-in routes, each with its pattern, its handler
\* and its options.
C26_BuiltinRoutesKept ==
    rt_pc \in {"hooks", "assembled"} =>
        LET builtin == builtin_routes(access_validators_from_plugins)
        IN  /\ Len(server_routes) >= Len(builtin)
            /\ SubSeq(server_routes, 1, Len(builtin)) = builtin

\* the patterns of the built-in entries
BuiltinRoutePatterns == {entry.pattern : entry \in Range(builtin_routes(<<>>))}
BuiltinBodySizePatterns == {entry.pattern : entry \in Range(builtin_body_sizes)}

\* C28: what a round of either hook loop adds for plugin P has a pattern
\* that begins with /plugin/P/ and goes on without '/', so it is the
\* pattern of no built-in entry and in the namespace of no other plugin.
C28_PluginNamespace ==
    [][(/\ (rt_pc = "hooks" /\ rt_hook <= Len(RoutePlugins)) =>
            \A i \in (Len(server_routes) + 1)..Len(server_routes') :
                LET pattern == server_routes'[i].pattern
                IN  /\ IsPluginRoute(server_routes'[i], RoutePlugins[rt_hook])
                    /\ (Len(pattern) > 5 => pattern[6] # "/")
                    /\ pattern \notin BuiltinRoutePatterns
                    /\ \A other \in Range(RoutePlugins) \ {RoutePlugins[rt_hook]} :
                          ~IsPluginRoute(server_routes'[i], other)
        /\ (bs_pc = "hooks" /\ bs_hook <= Len(BodySizePlugins)) =>
            \A k \in (Len(max_body_sizes) + 1)..Len(max_body_sizes') :
                LET pattern == max_body_sizes'[k].pattern
                IN  /\ IsPluginRoute(max_body_sizes'[k], BodySizePlugins[bs_hook])
                    /\ (Len(pattern) > 5 => pattern[6] # "/")
                    /\ pattern \notin BuiltinBodySizePatterns
                    /\ \A other \in Range(BodySizePlugins) \ {BodySizePlugins[bs_hook]} :
                          ~IsPluginRoute(max_body_sizes'[k], other))
      ]_vars

C28_Witness ==
    /\ rt_pc = "assembled"
    /\ \E i \in 1..Len(server_routes) :
          server_routes[i].pattern = <<"/", "plugin", "/", "p2", "/", "a">>

\* ------------------------------------- properties of the cache replay

\* C21: the filter keeps an entry iff it has a _timestamp greater than the
\* cutoff and a base_url that is not empty and starts with http:// or
\* https://; every entry of cache_data and of the batch passed it.
C21_FilterKeeps ==
    /\ rp_examined.seen =>
          LET entry == rp_examined.entry
              young == entry.timestamp.present /\ entry.timestamp.value > cutoff_timestamp
              http == /\ entry.base_url.present
                      /\ entry.base_url.value \in {HttpUrl, HttpsUrl}
          IN  rp_examined.kept <=> (young /\ http)
    /\ \A route \in CacheRoutes : \A i \in 1..Len(rp_cache_data[route]) :
          LET entry == rp_cache_data[route][i]
          IN  /\ entry.timestamp.present
              /\ entry.timestamp.value > cutoff_timestamp
              /\ entry.base_url.value \in {HttpUrl, HttpsUrl}
    /\ \A i \in 1..Len(rp_batch) :
          \E j \in 1..Len(rp_cache_data[rp_batch[i].route]) :
              rp_cache_data[rp_batch[i].route][j] = rp_batch[i].entry

C21_Witness ==
    /\ rp_examined.seen
    /\ ~rp_examined.kept
    /\ rp_examined.entry.timestamp = Value(11)
    /\ rp_examined.entry.base_url = Value(FtpUrl)
    /\ cache_data_size(rp_cache_data, CacheRoutes) = 1

\* C22: the batch holds every entry of cache_data once; a route with fewer
\* '/' comes before one with more, routes with as many in the order of the
\* strings, and the entries of one route with the greater count first (no
\* count is 0), entries of equal count in the order of the cache.
C22_ReplayOrder ==
    rp_pc \in {"replay", "done"} =>
        /\ Len(rp_batch) = cache_data_size(rp_cache_data, CacheRoutes)
        /\ \A i, j \in 1..Len(rp_batch) :
              i < j =>
                 LET x == rp_batch[i]
                     y == rp_batch[j]
                 IN  /\ count_slashes(x.route) <= count_slashes(y.route)
                     /\ count_slashes(x.route) = count_slashes(y.route)
                            => (x.route = y.route \/ str_less(x.route, y.route))
                     /\ x.route = y.route
                            => count_key(x.entry) >= count_key(y.entry)

C22_Witness ==
    /\ Len(rp_batch) = 2
    /\ rp_batch[1].route = <<"/", "b">>
    /\ rp_batch[1].entry.count = Value(5)
    /\ rp_batch[2].route = <<"/", "a", "/", "b">>
    /\ rp_batch[2].entry.count = Value(50)

C24_SameDispatchPath ==
    \A i \in 1..Len(rp_log) :
        rp_log[i].dispatched => rp_log[i].path = real_dispatch_path

\* ------------------------------------------- properties of the flag

\* the run has not come to the end of the after-startup plugin calls
BeforeCleared == flag_pc \in {"run", "plugins", "bound", "after_startup"}

RECURSIVE Resolvable(_, _)
Resolvable(definitions, keys) ==
    LET more == {permission_key(d.plugin, d.key) :
                    d \in {e \in definitions :
                              \A i \in 1..Len(e.permissions) :
                                  permission_found(keys, e.permissions[i])}}
    IN  IF more \subseteq keys THEN keys ELSE Resolvable(definitions, keys \cup more)

\* C30: the resolution passes come to an end, after no more passes than
\* there are postponed definitions plus one; then a postponed definition was
\* registered iff all keys it references are found, and the keys
\* registered are those that can be resolved in any order.
C30_ResolutionTerminates ==
    /\ <>(perm_pc = "done")
    /\ [](pass_number <= Cardinality(perm_postponed) + 1)
    /\ [](perm_pc = "done" =>
            /\ \A i \in perm_postponed :
                  i \in perm_processed
                     <=> \A j \in 1..Len(perm_definitions[i].permissions) :
                            permission_found(perm_registered,
                                             perm_definitions[i].permissions[j])
            /\ perm_registered = Resolvable(Range(perm_definitions), {}))

C30_Witness ==
    /\ perm_pc = "done"
    /\ pass_number = 3
    /\ Cardinality(perm_postponed) = 2
    /\ perm_postponed \subseteq perm_processed

====
